---- MODULE Spec2Model ----
(***************************************************************************)
(* Model of the chunked voxel world of rust-concurrency:                   *)
(*   - the coordinate conversions of generator/chunk.rs,                   *)
(*   - the World of generator/mod.rs: chunk map, generation and meshing    *)
(*     queues, tracking sets, the chunk channel and the generation         *)
(*     workers, with the owner's operations,                               *)
(*   - the meshing workers and the surface extractor of meshgen.rs,        *)
(*   - the same calls and workers followed lock by lock.                   *)
(***************************************************************************)
EXTENDS Integers, Sequences, FiniteSets, TLC

VARIABLES
    cin,              \* input of the coordinate function under test
    cout,             \* its result (None until applied)
    chunks,           \* World::chunks: ChunkCoord -> Chunk
    models,           \* World::models: ChunkCoord -> model
    chunk_gen_queue,  \* World::chunk_gen_queue
    meshgen_queue,    \* World::meshgen_queue
    loaded_chunks,    \* World::loaded_chunks
    meshed_chunks,    \* World::meshed_chunks
    chunk_channel,    \* chunks sent by workers, not yet received
    gen_worker,       \* per generation worker: the job it holds
    mesh_worker,      \* per meshing worker: its position and what it holds
    mesh_channel,     \* (coord, mesh) pairs sent by workers, not yet dequeued
    owner,            \* the owner thread: between calls, or its place inside one
    held,             \* per mutex of the World: the thread that holds its guard
    last,             \* history: the step that led to this state
    resets            \* history: number of reset calls made

coordVars == <<cin, cout>>
meshVars == <<mesh_worker, mesh_channel, owner, held>>
worldVars == <<chunks, models, chunk_gen_queue, meshgen_queue, loaded_chunks,
               meshed_chunks, chunk_channel, gen_worker, meshVars, last, resets>>
vars == <<cin, cout, chunks, models, chunk_gen_queue, meshgen_queue,
          loaded_chunks, meshed_chunks, chunk_channel, gen_worker, mesh_worker,
          mesh_channel, owner, held, last, resets>>

(***************************************************************************)
(* Program constants and bounds                                            *)
(***************************************************************************)
CHUNK_SIZE == 32

\* world coordinates of the conversion inputs range over -MaxWorld..MaxWorld
MaxWorld == 33

\* dispatch_threads(NumGenWorkers, 0): the generation workers started
NumGenWorkers == 1

\* no mesh worker drains the meshing queue: edits stop once it holds
\* MaxMeshQueue entries
MaxMeshQueue == 2

\* at most MaxResets reset calls
MaxResets == 1

\* dispatch_threads(_, NumMeshWorkers): the meshing workers started
NumMeshWorkers == 1

\* workers stop sending once the mesh channel holds MaxMeshChannel results
MaxMeshChannel == 2

\* with meshing workers running, an edit starts only while fewer than
\* MaxMeshPending entries are pending in the meshing queue
MaxMeshPending == 3

\* dispatch_threads(NumStreamGenWorkers, NumMeshWorkers) of the streaming world
NumStreamGenWorkers == 2

\* with every lock step followed, an edit starts only while fewer than
\* MaxLockPending entries are pending in the meshing queue
MaxLockPending == 1

None == [some |-> FALSE]
Some(v) == [some |-> TRUE, val |-> v]

Coord(x, y, z) == [x |-> x, y |-> y, z |-> z]

(***************************************************************************)
(* Integer helpers: Rust's `/` truncates, `as i16` wraps, `as usize` of a  *)
(* negative i32 sign-extends to 2^64 - |x|.                                *)
(***************************************************************************)
TruncDiv(a, b) == IF a >= 0 THEN a \div b ELSE -((-a) \div b)

AsI16(v) == ((v + 32768) % 65536) - 32768

RECURSIVE Pow2Mod(_, _)
Pow2Mod(e, n) == IF e = 0 THEN 1 % n ELSE (2 * Pow2Mod(e - 1, n)) % n

\* (x as usize) % n for an i32 x on a 64-bit target
AsUsizeRem(x, n) == IF x >= 0 THEN x % n ELSE (Pow2Mod(64, n) + (x % n)) % n

\* the mathematical floor(a / b), b > 0
FloorDiv(a, b) == a \div b

(***************************************************************************)
(* chunk.rs: coordinate conversions                                        *)
(***************************************************************************)
\* impl Add<BlockOffsetCoord> for WorldCoord
WorldAdd(w, off) == Coord(w.x + off.x, w.y + off.y, w.z + off.z)

\* impl Sub<WorldCoord> for WorldCoord
WorldSub(a, b) == Coord(a.x - b.x, a.y - b.y, a.z - b.z)

\* one axis of ChunkCoord::from(WorldCoord), the historical truncating variant
ChunkAxisTruncating(v) == AsI16(TruncDiv(v, CHUNK_SIZE))

\* one axis of ChunkCoord::from(WorldCoord)
ChunkAxis(v) ==
    LET neg == v < 0
        v1 == IF neg THEN v + 1 ELSE v
    IN AsI16(TruncDiv(v1, CHUNK_SIZE) - (IF neg THEN 1 ELSE 0))

\* impl From<WorldCoord> for ChunkCoord
ChunkCoordFrom(w) == Coord(ChunkAxis(w.x), ChunkAxis(w.y), ChunkAxis(w.z))

\* impl Into<WorldCoord> for ChunkCoord, dropping the y axis scale
ChunkCoordToWorldSwapped(c) == Coord(c.x * CHUNK_SIZE, c.z * CHUNK_SIZE, c.y * CHUNK_SIZE)

\* impl Into<WorldCoord> for ChunkCoord
ChunkCoordToWorld(c) == Coord(c.x * CHUNK_SIZE, c.y * CHUNK_SIZE, c.z * CHUNK_SIZE)

\* WorldCoord::from_chunk_and_local
FromChunkAndLocal(chunk_coord, offset) == WorldAdd(ChunkCoordToWorld(chunk_coord), offset)

\* Into<ChunkLocalCoord> for BlockOffsetCoord that clamps instead of taking the offset
BlockOffsetToLocalClamped(off) ==
    LET cl(v) == IF v > CHUNK_SIZE - 2 THEN CHUNK_SIZE - 2 ELSE IF v < 0 THEN 0 ELSE v
    IN Coord(cl(off.x), cl(off.y), cl(off.z))

\* impl Into<ChunkLocalCoord> for BlockOffsetCoord
BlockOffsetToLocal(off) ==
    Coord(AsUsizeRem(off.x, CHUNK_SIZE), AsUsizeRem(off.y, CHUNK_SIZE),
          AsUsizeRem(off.z, CHUNK_SIZE))

\* the offset computed inside ChunkLocalCoord::from
LocalOffset(w) == WorldSub(w, ChunkCoordToWorld(ChunkCoordFrom(w)))

\* impl From<WorldCoord> for ChunkLocalCoord; "panic" when the assertion fails
ChunkLocalCoordFrom(w) ==
    LET offset == LocalOffset(w)
    IN IF offset.x >= 0 /\ offset.y >= 0 /\ offset.z >= 0
       THEN BlockOffsetToLocal(offset)
       ELSE [panic |-> TRUE]

\* ChunkCoord::left .. ChunkCoord::down (i16 arithmetic)
ChunkLeft(c) == Coord(AsI16(c.x - 1), c.y, c.z)
ChunkRight(c) == Coord(AsI16(c.x + 1), c.y, c.z)
ChunkFront(c) == Coord(c.x, c.y, AsI16(c.z - 1))
ChunkBack(c) == Coord(c.x, c.y, AsI16(c.z + 1))
ChunkUp(c) == Coord(c.x, AsI16(c.y + 1), c.z)
ChunkDown(c) == Coord(c.x, AsI16(c.y - 1), c.z)

\* impl Add for ChunkCoord
ChunkAdd(a, b) == Coord(AsI16(a.x + b.x), AsI16(a.y + b.y), AsI16(a.z + b.z))

\* ChunkLocalCoord::right with the bound off by one
LocalRightOffByOne(l) == IF l.x = CHUNK_SIZE THEN None ELSE Some(Coord(l.x + 1, l.y, l.z))

\* ChunkLocalCoord::left .. ChunkLocalCoord::back
LocalLeft(l) == IF l.x = 0 THEN None ELSE Some(Coord(l.x - 1, l.y, l.z))
LocalRight(l) == IF l.x = CHUNK_SIZE - 1 THEN None ELSE Some(Coord(l.x + 1, l.y, l.z))
LocalUp(l) == IF l.y = CHUNK_SIZE - 1 THEN None ELSE Some(Coord(l.x, l.y + 1, l.z))
LocalDown(l) == IF l.y = 0 THEN None ELSE Some(Coord(l.x, l.y - 1, l.z))
LocalFront(l) == IF l.z = 0 THEN None ELSE Some(Coord(l.x, l.y, l.z - 1))
LocalBack(l) == IF l.z = CHUNK_SIZE - 1 THEN None ELSE Some(Coord(l.x, l.y, l.z + 1))

InRange(l) ==
    /\ 0 <= l.x /\ l.x < CHUNK_SIZE
    /\ 0 <= l.y /\ l.y < CHUNK_SIZE
    /\ 0 <= l.z /\ l.z < CHUNK_SIZE

(***************************************************************************)
(* World::new: the state after construction                                *)
(***************************************************************************)
NoCall == [op |-> "none"]

GenWorkers == 1..NumGenWorkers

MeshWorkers == 1..NumMeshWorkers

\* a meshing worker between two iterations of its loop
MeshIdle == [pc |-> "idle"]

\* the owner thread between two calls on the world
OwnerIdle == [pc |-> "idle"]

\* the chunk map's mutex is poisoned: a meshing worker panicked while holding
\* it, and every later chunks.lock().unwrap() panics in its turn
ChunksPoisoned == \E w \in DOMAIN mesh_worker : mesh_worker[w].pc = "panicked"

EmptyMap == [c \in {} |-> None]

\* the five mutexes of the World, by the name of the field they guard
Locks == {"chunks", "chunk_gen_queue", "meshgen_queue", "loaded_chunks", "meshed_chunks"}

\* the threads: the owner, the generation workers, the meshing workers
OwnerThread == <<"owner", 0>>

GenThread(w) == <<"gen", w>>

MeshThread(w) == <<"mesh", w>>

\* no thread holds the guard
Free == <<"free", 0>>

\* every mutex as Mutex::new leaves it
NoneHeld == [l \in Locks |-> Free]

WorldNew ==
    /\ chunks = EmptyMap
    /\ models = EmptyMap
    /\ chunk_gen_queue = <<>>
    /\ meshgen_queue = <<>>
    /\ loaded_chunks = {}
    /\ meshed_chunks = {}
    /\ chunk_channel = <<>>
    /\ gen_worker = [w \in GenWorkers |-> None]
    /\ mesh_worker = [w \in MeshWorkers |-> MeshIdle]
    /\ mesh_channel = <<>>
    /\ owner = OwnerIdle
    /\ held = NoneHeld
    /\ last = NoCall
    /\ resets = 0

(***************************************************************************)
(* Coordinate conversions applied to every input of a bounded box          *)
(* (tests.rs coord_test converts each world coordinate both ways)          *)
(***************************************************************************)
WorldRange == (-MaxWorld)..MaxWorld

LocalRange == 0..(CHUNK_SIZE - 1)

InitCoord ==
    /\ \E x \in WorldRange, y \in WorldRange, z \in WorldRange :
           cin = [kind |-> "world", w |-> Coord(x, y, z)]
    /\ cout = None
    /\ WorldNew

\* the body of coord_test's loop, followed by the reconstruction
ConvertWorld ==
    /\ cin.kind = "world"
    /\ cout = None
    /\ LET chunk_coord == ChunkCoordFrom(cin.w)
           local_coord == ChunkLocalCoordFrom(cin.w)
       IN cout' = Some([chunk |-> chunk_coord,
                        local |-> local_coord,
                        back  |-> IF "panic" \in DOMAIN local_coord
                                  THEN local_coord
                                  ELSE FromChunkAndLocal(chunk_coord, local_coord)])
    /\ UNCHANGED <<meshVars, cin, chunks, models, chunk_gen_queue, meshgen_queue,
                   loaded_chunks, meshed_chunks, chunk_channel, gen_worker, last, resets>>

NextCoord == ConvertWorld

SpecCoord == InitCoord /\ [][NextCoord]_vars

InitStepper ==
    /\ \E x \in LocalRange, y \in LocalRange, z \in LocalRange :
           cin = [kind |-> "local", l |-> Coord(x, y, z)]
    /\ cout = None
    /\ WorldNew

Step(dir, result) ==
    /\ cin.kind = "local"
    /\ cout = None
    /\ cout' = Some([dir |-> dir, res |-> result])
    /\ UNCHANGED <<meshVars, cin, chunks, models, chunk_gen_queue, meshgen_queue,
                   loaded_chunks, meshed_chunks, chunk_channel, gen_worker, last, resets>>

StepLeft == Step("left", LocalLeft(cin.l))
StepRight == Step("right", LocalRight(cin.l))
StepUp == Step("up", LocalUp(cin.l))
StepDown == Step("down", LocalDown(cin.l))
StepFront == Step("front", LocalFront(cin.l))
StepBack == Step("back", LocalBack(cin.l))

NextStepper == StepLeft \/ StepRight \/ StepUp \/ StepDown \/ StepFront \/ StepBack

SpecStepper == InitStepper /\ [][NextStepper]_vars

(***************************************************************************)
(* Properties of the coordinate conversions                                *)
(***************************************************************************)
Converted == cin.kind = "world" /\ cout.some

\* C1: every component of ChunkCoord::from(w) is floor(w / CHUNK_SIZE),
\* rounding toward negative infinity
C1_FloorDivision ==
    Converted =>
        /\ cout.val.chunk.x = FloorDiv(cin.w.x, CHUNK_SIZE)
        /\ cout.val.chunk.y = FloorDiv(cin.w.y, CHUNK_SIZE)
        /\ cout.val.chunk.z = FloorDiv(cin.w.z, CHUNK_SIZE)

\* C1 witness: world x = -CHUNK_SIZE, y = -1, z = CHUNK_SIZE converted to
\* chunk (-1, -1, 1)
C1_Witness ==
    /\ Converted
    /\ cin.w = Coord(-CHUNK_SIZE, -1, CHUNK_SIZE)
    /\ cout.val.chunk = Coord(-1, -1, 1)

\* C2: rebuilding the world coordinate from chunk and local coordinate
\* gives the input back
C2_RoundTrip == Converted => cout.val.back = cin.w

\* C2 witness: a coordinate with negative components has been rebuilt
C2_Witness ==
    /\ Converted
    /\ cin.w = Coord(-1, -CHUNK_SIZE - 1, CHUNK_SIZE - 1)
    /\ cout.val.local = Coord(CHUNK_SIZE - 1, CHUNK_SIZE - 1, CHUNK_SIZE - 1)
    /\ cout.val.back = cin.w

\* C3: the local coordinate is w - chunk * CHUNK_SIZE on each axis and lies
\* in [0, CHUNK_SIZE); the conversion does not fail
C3_LocalIsOffset ==
    Converted =>
        /\ "panic" \notin DOMAIN cout.val.local
        /\ cout.val.local.x = cin.w.x - cout.val.chunk.x * CHUNK_SIZE
        /\ cout.val.local.y = cin.w.y - cout.val.chunk.y * CHUNK_SIZE
        /\ cout.val.local.z = cin.w.z - cout.val.chunk.z * CHUNK_SIZE
        /\ InRange(cout.val.local)

\* C3 witness: a negative world coordinate one below a chunk origin maps
\* to the last local index
C3_Witness ==
    /\ Converted
    /\ cin.w = Coord(-CHUNK_SIZE - 1, 0, -1)
    /\ cout.val.chunk = Coord(-2, 0, -1)
    /\ cout.val.local = Coord(CHUNK_SIZE - 1, 0, CHUNK_SIZE - 1)

\* the largest value of an i16, the type of ChunkCoord's components
I16Max == 32767

\* how far on each side of the first world coordinate whose chunk leaves i16
\* the far inputs go
FarSpan == 2

\* world coordinates around (I16Max + 1) * CHUNK_SIZE and its negative, the
\* ends of the chunks an i16 can number, and around zero
FarRange ==
    ((I16Max + 1) * CHUNK_SIZE - FarSpan)..((I16Max + 1) * CHUNK_SIZE + FarSpan - 1)
    \cup (-(I16Max + 1) * CHUNK_SIZE - FarSpan)..(-(I16Max + 1) * CHUNK_SIZE + FarSpan - 1)
    \cup (-1)..0

InitCoordFar ==
    /\ \E x \in FarRange, y \in FarRange, z \in FarRange :
           cin = [kind |-> "world", w |-> Coord(x, y, z)]
    /\ cout = None
    /\ WorldNew

SpecCoordFar == InitCoordFar /\ [][NextCoord]_vars

\* C32: for world coordinates over all of i32, ChunkCoord::from(w) holds
\* floor(w / CHUNK_SIZE) in its 16-bit components without wrap-around, and
\* ChunkLocalCoord::from(w) never fails its assertion that the offset from the
\* chunk origin is non-negative.
C32_NoRangeLimit ==
    Converted =>
        /\ cout.val.chunk = Coord(FloorDiv(cin.w.x, CHUNK_SIZE),
                                  FloorDiv(cin.w.y, CHUNK_SIZE),
                                  FloorDiv(cin.w.z, CHUNK_SIZE))
        /\ "panic" \notin DOMAIN cout.val.local

Stepped == cin.kind = "local" /\ cout.some

\* the value of the axis a stepper moves along, and its direction
StepAxis(dir, l) ==
    CASE dir \in {"left", "right"} -> l.x
      [] dir \in {"up", "down"} -> l.y
      [] dir \in {"front", "back"} -> l.z

StepDelta(dir) == IF dir \in {"right", "up", "back"} THEN 1 ELSE -1

StepExpected(dir, l) ==
    CASE dir = "left" -> Coord(l.x - 1, l.y, l.z)
      [] dir = "right" -> Coord(l.x + 1, l.y, l.z)
      [] dir = "up" -> Coord(l.x, l.y + 1, l.z)
      [] dir = "down" -> Coord(l.x, l.y - 1, l.z)
      [] dir = "front" -> Coord(l.x, l.y, l.z - 1)
      [] dir = "back" -> Coord(l.x, l.y, l.z + 1)

\* C4: a stepper returns None exactly when the step leaves [0, CHUNK_SIZE)
\* on its axis, and otherwise Some in-range coordinate one away on that axis
C4_Steppers ==
    Stepped =>
        LET dir == cout.val.dir
            res == cout.val.res
            target == StepAxis(dir, cin.l) + StepDelta(dir)
        IN /\ ~res.some <=> (target < 0 \/ target >= CHUNK_SIZE)
           /\ res.some => (InRange(res.val) /\ res.val = StepExpected(dir, cin.l))

\* C4 witness: right() at x = CHUNK_SIZE-1 returned None
C4_Witness ==
    /\ Stepped
    /\ cin.l.x = CHUNK_SIZE - 1
    /\ cout.val.dir = "right"
    /\ ~cout.val.res.some

(***************************************************************************)
(* voxel.rs, chunk.rs: voxels and chunks                                   *)
(***************************************************************************)
\* Blocks::AIR and Blocks::STONE default_state ids
AIR == 0
STONE == 1

Voxels == {AIR, STONE}

\* the world positions the owner edits
EditPositions ==
    { Coord(1, 1, 1),                 \* interior of chunk (0,0,0)
      Coord(0, 1, CHUNK_SIZE - 1) }   \* on its x = 0 and z = CHUNK_SIZE-1 faces

\* Chunk::translate_index without the square on the z stride
TranslateIndexFlat(l) == l.x + l.y * CHUNK_SIZE + (l.z * CHUNK_SIZE)

\* Chunk::translate_index
TranslateIndex(l) == l.x + l.y * CHUNK_SIZE + (l.z * CHUNK_SIZE * CHUNK_SIZE)

\* chunk_data is kept as the function from the indices that hold a voxel other
\* than air to that voxel; every index outside its domain holds air

\* Chunk::new: every voxel is air
ChunkNew(coord) == [coord |-> coord, chunk_data |-> [i \in {} |-> AIR]]

\* Generator::generate, the trait's default body
Generate(chunk) == chunk

\* the range test that looks at the x axis only
OutOfRangeXOnly(l) == l.x >= CHUNK_SIZE

OutOfRange(l) == l.x >= CHUNK_SIZE \/ l.y >= CHUNK_SIZE \/ l.z >= CHUNK_SIZE

\* chunk_data[i]
DataAt(data, i) == IF i \in DOMAIN data THEN data[i] ELSE AIR

\* chunk_data[i] = voxel
DataPut(data, i, voxel) ==
    [j \in (IF voxel = AIR THEN DOMAIN data \ {i} ELSE DOMAIN data \cup {i}) |->
        IF j = i THEN voxel ELSE data[j]]

\* Chunk::get_voxel
ChunkGetVoxel(chunk, l) ==
    IF OutOfRange(l) THEN None ELSE Some(DataAt(chunk.chunk_data, TranslateIndex(l)))

\* Chunk::set_voxel
ChunkSetVoxel(chunk, l, voxel) ==
    IF OutOfRange(l) THEN chunk
    ELSE [chunk EXCEPT !.chunk_data = DataPut(@, TranslateIndex(l), voxel)]

(***************************************************************************)
(* mod.rs: the World's operations on its collections                       *)
(***************************************************************************)
\* HashMap::insert
MapInsert(m, k, v) == [c \in (DOMAIN m) \cup {k} |-> IF c = k THEN v ELSE m[c]]

\* a queue that takes the new entry at its back
PushFrontAtBack(q, c) == Append(q, c)

\* VecDeque::push_front
PushFront(q, c) == <<c>> \o q

\* enqueue_chunk without the loaded-set test
EnqueueChunkAlways(st, chunk_coord) ==
    [loaded |-> st.loaded \cup {chunk_coord}, genq |-> Append(st.genq, chunk_coord)]

\* World::enqueue_chunk on st = [loaded, genq]
EnqueueChunkOp(st, chunk_coord) ==
    IF chunk_coord \in st.loaded
    THEN st
    ELSE [loaded |-> st.loaded \cup {chunk_coord}, genq |-> Append(st.genq, chunk_coord)]

\* the neighbour test that forgets the vertical neighbours
NeighboursPresentFlat(m, coord) ==
    /\ ChunkLeft(coord) \in DOMAIN m
    /\ ChunkRight(coord) \in DOMAIN m
    /\ ChunkFront(coord) \in DOMAIN m
    /\ ChunkBack(coord) \in DOMAIN m

\* the condition of enqueue_meshgen's first test
NeighboursPresent(m, coord) ==
    /\ ChunkLeft(coord) \in DOMAIN m
    /\ ChunkRight(coord) \in DOMAIN m
    /\ ChunkFront(coord) \in DOMAIN m
    /\ ChunkBack(coord) \in DOMAIN m
    /\ ChunkUp(coord) \in DOMAIN m
    /\ ChunkDown(coord) \in DOMAIN m

\* the meshed-set test of enqueue_meshgen, ignoring the set
MeshedInsertAlways(meshed, coord) == TRUE

\* HashSet::insert on the meshed set: TRUE when coord was not in it
MeshedInsert(meshed, coord) == coord \notin meshed

\* World::enqueue_meshgen on st = [meshed, meshq], m the chunk map
EnqueueMeshgenOp(m, st, coord) ==
    IF ~NeighboursPresent(m, coord) THEN st
    ELSE IF ~MeshedInsert(st.meshed, coord) THEN st
    ELSE [meshed |-> st.meshed \cup {coord}, meshq |-> Append(st.meshq, coord)]

\* the coordinates enqueue_chunks_around visits, in loop order
BoxSeq(center, height, distance) ==
    LET half == height \div 2
        side == 2 * distance + 1
        n == (2 * half + 1) * side * side
    IN [t \in 1..n |->
          LET i == ((t - 1) \div (side * side)) - half
              j == (((t - 1) \div side) % side) - distance
              k == ((t - 1) % side) - distance
          IN ChunkAdd(center, Coord(k, i, j))]

\* the loop of enqueue_chunks_around from its t-th coordinate on,
\* on st = [loaded, genq, meshed, meshq]
RECURSIVE EnqueueAroundLoop(_, _, _, _)
EnqueueAroundLoop(m, st, box, t) ==
    IF t > Len(box) THEN st
    ELSE LET g == EnqueueChunkOp([loaded |-> st.loaded, genq |-> st.genq], box[t])
             h == EnqueueMeshgenOp(m, [meshed |-> st.meshed, meshq |-> st.meshq], box[t])
             after == [loaded |-> g.loaded, genq |-> g.genq,
                       meshed |-> h.meshed, meshq |-> h.meshq]
         \* the test is always true: it has TLC compute the state after this
         \* iteration before it enters the next one
         IN IF after = after THEN EnqueueAroundLoop(m, after, box, t + 1) ELSE st

\* the first loop of receive_chunk: insert every received chunk
RECURSIVE InsertAll(_, _, _)
InsertAll(m, received, t) ==
    IF t > Len(received) THEN m
    ELSE InsertAll(MapInsert(m, received[t].coord, received[t]), received, t + 1)

\* the second loop of receive_chunk: enqueue_meshgen for each received coordinate
RECURSIVE MeshAll(_, _, _, _)
MeshAll(m, st, received, t) ==
    IF t > Len(received) THEN st
    ELSE MeshAll(m, EnqueueMeshgenOp(m, st, received[t].coord), received, t + 1)

\* set_voxel that allocates the chunk of an unloaded position
SetVoxelAllocating(m, q, position, block) ==
    LET chunk_coord == ChunkCoordFrom(position)
        local_coord == ChunkLocalCoordFrom(position)
    IN [chunks |-> MapInsert(m, chunk_coord,
                             ChunkSetVoxel(IF chunk_coord \in DOMAIN m THEN m[chunk_coord]
                                           ELSE ChunkNew(chunk_coord), local_coord, block)),
        meshq |-> PushFront(q, chunk_coord)]

\* set_voxel that re-enqueues only the edited chunk
SetVoxelOwnChunkOnly(m, q, position, block) ==
    LET chunk_coord == ChunkCoordFrom(position)
        local_coord == ChunkLocalCoordFrom(position)
    IN IF chunk_coord \notin DOMAIN m THEN [chunks |-> m, meshq |-> q]
       ELSE [chunks |-> [m EXCEPT ![chunk_coord] = ChunkSetVoxel(@, local_coord, block)],
             meshq |-> PushFront(q, m[chunk_coord].coord)]

\* World::set_voxel on the chunk map m and the meshing queue q
SetVoxelOp(m, q, position, block) ==
    LET chunk_coord == ChunkCoordFrom(position)
        local_coord == ChunkLocalCoordFrom(position)
    IN IF chunk_coord \notin DOMAIN m THEN [chunks |-> m, meshq |-> q]
       ELSE LET chunk == ChunkSetVoxel(m[chunk_coord], local_coord, block)
                q1 == IF ~LocalLeft(local_coord).some
                      THEN PushFront(q, ChunkLeft(chunk.coord)) ELSE q
                q2 == IF ~LocalRight(local_coord).some
                      THEN PushFront(q1, ChunkRight(chunk.coord)) ELSE q1
                q3 == IF ~LocalUp(local_coord).some
                      THEN PushFront(q2, ChunkUp(chunk.coord)) ELSE q2
                q4 == IF ~LocalDown(local_coord).some
                      THEN PushFront(q3, ChunkDown(chunk.coord)) ELSE q3
                q5 == IF ~LocalFront(local_coord).some
                      THEN PushFront(q4, ChunkFront(chunk.coord)) ELSE q4
                q6 == IF ~LocalBack(local_coord).some
                      THEN PushFront(q5, ChunkBack(chunk.coord)) ELSE q5
            IN [chunks |-> [m EXCEPT ![chunk_coord] = chunk],
                meshq |-> PushFront(q6, chunk.coord)]

(***************************************************************************)
(* mod.rs: the owner's calls and the generation workers as actions         *)
(***************************************************************************)
Origin == Coord(0, 0, 0)

\* the coordinates enqueue_chunk and enqueue_meshgen are called with directly
CallCoords == {Origin, ChunkDown(Origin)}

\* camera.eye, floored to a world coordinate
CameraEyes == {Coord(5, 5, 5)}

\* the <<height, distance>> arguments of enqueue_chunks_around
AroundArgs == {<<0, 0>>}

\* the chunks streamed in before the observed calls start, in request order:
\* nothing, five or six neighbours of Origin, or Origin with its neighbours
StreamOrders ==
    { <<>>,
      <<ChunkLeft(Origin), ChunkRight(Origin), ChunkFront(Origin), ChunkBack(Origin),
        ChunkUp(Origin)>>,
      <<ChunkLeft(Origin), ChunkRight(Origin), ChunkFront(Origin), ChunkBack(Origin),
        ChunkUp(Origin), ChunkDown(Origin)>>,
      <<Origin, ChunkLeft(Origin), ChunkRight(Origin), ChunkFront(Origin),
        ChunkBack(Origin), ChunkUp(Origin), ChunkDown(Origin)>> }

\* enqueue_chunk for each coordinate of order, from its t-th on
RECURSIVE EnqueueAll(_, _, _)
EnqueueAll(st, order, t) ==
    IF t > Len(order) THEN st ELSE EnqueueAll(EnqueueChunkOp(st, order[t]), order, t + 1)

\* what one worker sends for the generation queue q
Generated(q) == [t \in 1..Len(q) |-> Generate(ChunkNew(q[t]))]

\* World::new, dispatch_threads(NumGenWorkers, 0), then enqueue_chunk for each
\* coordinate of a stream order, their generation and one receive_chunk
Init ==
    /\ cin = None
    /\ cout = None
    /\ \E order \in StreamOrders :
         LET g == EnqueueAll([loaded |-> {}, genq |-> <<>>], order, 1)
             sent == Generated(g.genq)
             m == InsertAll(EmptyMap, sent, 1)
             r == MeshAll(m, [meshed |-> {}, meshq |-> <<>>], sent, 1)
         IN /\ chunks = m
            /\ loaded_chunks = g.loaded
            /\ meshed_chunks = r.meshed
            /\ meshgen_queue = r.meshq
    /\ models = EmptyMap
    /\ chunk_gen_queue = <<>>
    /\ chunk_channel = <<>>
    /\ gen_worker = [w \in GenWorkers |-> None]
    /\ mesh_worker = [w \in MeshWorkers |-> MeshIdle]
    /\ mesh_channel = <<>>
    /\ owner = OwnerIdle
    /\ held = NoneHeld
    /\ last = NoCall
    /\ resets = 0

\* World::enqueue_chunk(chunk_coord)
EnqueueChunk(chunk_coord) ==
    LET r == EnqueueChunkOp([loaded |-> loaded_chunks, genq |-> chunk_gen_queue], chunk_coord)
    IN /\ loaded_chunks' = r.loaded
       /\ chunk_gen_queue' = r.genq
       /\ last' = [op |-> "enqueue_chunk", coord |-> chunk_coord,
                   inserted |-> chunk_coord \notin loaded_chunks]
       /\ UNCHANGED <<meshVars, cin, cout, chunks, models, meshgen_queue, meshed_chunks,
                      chunk_channel, gen_worker, resets>>

\* World::enqueue_meshgen(coord)
EnqueueMeshgen(coord) ==
    LET r == EnqueueMeshgenOp(chunks, [meshed |-> meshed_chunks, meshq |-> meshgen_queue], coord)
    IN /\ ~ChunksPoisoned
       /\ meshed_chunks' = r.meshed
       /\ meshgen_queue' = r.meshq
       /\ last' = [op |-> "enqueue_meshgen", coord |-> coord,
                   already |-> coord \in meshed_chunks]
       /\ UNCHANGED <<meshVars, cin, cout, chunks, models, chunk_gen_queue, loaded_chunks,
                      chunk_channel, gen_worker, resets>>

\* World::enqueue_chunks_around(camera, height, distance)
EnqueueChunksAround(eye, height, distance) ==
    LET center == ChunkCoordFrom(eye)
        r == EnqueueAroundLoop(chunks,
                               [loaded |-> loaded_chunks, genq |-> chunk_gen_queue,
                                meshed |-> meshed_chunks, meshq |-> meshgen_queue],
                               BoxSeq(center, height, distance), 1)
    IN /\ ~ChunksPoisoned
       /\ loaded_chunks' = r.loaded
       /\ chunk_gen_queue' = r.genq
       /\ meshed_chunks' = r.meshed
       /\ meshgen_queue' = r.meshq
       /\ last' = [op |-> "enqueue_chunks_around", height |-> height, distance |-> distance]
       /\ UNCHANGED <<meshVars, cin, cout, chunks, models, chunk_channel, gen_worker, resets>>

\* World::receive_chunk: drain the channel, insert, then enqueue_meshgen each
ReceiveChunk ==
    LET m == InsertAll(chunks, chunk_channel, 1)
        r == MeshAll(m, [meshed |-> meshed_chunks, meshq |-> meshgen_queue], chunk_channel, 1)
    IN /\ ~ChunksPoisoned
       /\ chunks' = m
       /\ chunk_channel' = <<>>
       /\ meshed_chunks' = r.meshed
       /\ meshgen_queue' = r.meshq
       /\ last' = [op |-> "receive_chunk"]
       /\ UNCHANGED <<meshVars, cin, cout, models, chunk_gen_queue, loaded_chunks, gen_worker,
                      resets>>

\* World::set_voxel(position, block)
SetVoxel(position, block) ==
    LET r == SetVoxelOp(chunks, meshgen_queue, position, block)
    IN /\ ~ChunksPoisoned
       /\ Len(meshgen_queue) < MaxMeshQueue
       /\ chunks' = r.chunks
       /\ meshgen_queue' = r.meshq
       /\ last' = [op |-> "set_voxel", position |-> position, block |-> block]
       /\ UNCHANGED <<meshVars, cin, cout, models, chunk_gen_queue, loaded_chunks, meshed_chunks,
                      chunk_channel, gen_worker, resets>>

\* World::break_block(position)
BreakBlock(position) ==
    LET r == SetVoxelOp(chunks, meshgen_queue, position, AIR)
    IN /\ ~ChunksPoisoned
       /\ Len(meshgen_queue) < MaxMeshQueue
       /\ chunks' = r.chunks
       /\ meshgen_queue' = r.meshq
       /\ last' = [op |-> "break_block", position |-> position, block |-> AIR]
       /\ UNCHANGED <<meshVars, cin, cout, models, chunk_gen_queue, loaded_chunks, meshed_chunks,
                      chunk_channel, gen_worker, resets>>

\* World::reset
Reset ==
    /\ ~ChunksPoisoned
    /\ resets < MaxResets
    /\ resets' = resets + 1
    /\ loaded_chunks' = {}
    /\ chunk_gen_queue' = <<>>
    /\ meshgen_queue' = <<>>
    /\ chunks' = EmptyMap
    /\ models' = EmptyMap
    /\ last' = [op |-> "reset"]
    /\ UNCHANGED <<meshVars, cin, cout, meshed_chunks, chunk_channel, gen_worker>>

\* a worker that reads the front of the generation queue and leaves it queued
GenPopPeeking(w) ==
    /\ ~gen_worker[w].some
    /\ chunk_gen_queue # <<>>
    /\ gen_worker' = [gen_worker EXCEPT ![w] = Some(Head(chunk_gen_queue))]
    /\ last' = [op |-> "gen_pop"]
    /\ UNCHANGED <<meshVars, cin, cout, chunks, models, chunk_gen_queue, meshgen_queue, loaded_chunks,
                   meshed_chunks, chunk_channel, resets>>

\* a worker that takes the newest entry of the generation queue
GenPopNewest(w) ==
    /\ ~gen_worker[w].some
    /\ chunk_gen_queue # <<>>
    /\ gen_worker' = [gen_worker EXCEPT ![w] = Some(chunk_gen_queue[Len(chunk_gen_queue)])]
    /\ chunk_gen_queue' = SubSeq(chunk_gen_queue, 1, Len(chunk_gen_queue) - 1)
    /\ last' = [op |-> "gen_pop"]
    /\ UNCHANGED <<meshVars, cin, cout, chunks, models, meshgen_queue, loaded_chunks, meshed_chunks,
                   chunk_channel, resets>>

\* generation worker w: pop_front of the generation queue
GenPop(w) ==
    /\ ~gen_worker[w].some
    /\ chunk_gen_queue # <<>>
    /\ gen_worker' = [gen_worker EXCEPT ![w] = Some(Head(chunk_gen_queue))]
    /\ chunk_gen_queue' = Tail(chunk_gen_queue)
    /\ last' = [op |-> "gen_pop"]
    /\ UNCHANGED <<meshVars, cin, cout, chunks, models, meshgen_queue, loaded_chunks, meshed_chunks,
                   chunk_channel, resets>>

\* generation worker w: Chunk::new, generate, send
GenSend(w) ==
    /\ gen_worker[w].some
    /\ chunk_channel' = Append(chunk_channel, Generate(ChunkNew(gen_worker[w].val)))
    /\ gen_worker' = [gen_worker EXCEPT ![w] = None]
    /\ last' = [op |-> "gen_send"]
    /\ UNCHANGED <<meshVars, cin, cout, chunks, models, chunk_gen_queue, meshgen_queue, loaded_chunks,
                   meshed_chunks, resets>>

Next ==
    \/ \E c \in CallCoords : EnqueueChunk(c)
    \/ \E c \in CallCoords : EnqueueMeshgen(c)
    \/ \E eye \in CameraEyes, a \in AroundArgs : EnqueueChunksAround(eye, a[1], a[2])
    \/ ReceiveChunk
    \/ \E p \in EditPositions : SetVoxel(p, STONE)
    \/ \E p \in EditPositions : BreakBlock(p)
    \/ Reset
    \/ \E w \in GenWorkers : GenPop(w)
    \/ \E w \in GenWorkers : GenSend(w)

Spec == Init /\ [][Next]_vars

(***************************************************************************)
(* Claims about the generation queue and the meshing queue                 *)
(***************************************************************************)
\* the number of entries of q that equal c
Count(q, c) == Cardinality({i \in DOMAIN q : q[i] = c})

\* the six unit steps between face-adjacent chunks
Directions ==
    {Coord(-1, 0, 0), Coord(1, 0, 0), Coord(0, -1, 0), Coord(0, 1, 0),
     Coord(0, 0, -1), Coord(0, 0, 1)}

\* every face-adjacent coordinate of c is a key of the chunk map m
AllSixIn(m, c) ==
    \A d \in Directions : Coord(c.x + d.x, c.y + d.y, c.z + d.z) \in DOMAIN m

\* the chunk that holds world position p, by floor division
ChunkOfPosition(p) ==
    Coord(FloorDiv(p.x, CHUNK_SIZE), FloorDiv(p.y, CHUNK_SIZE), FloorDiv(p.z, CHUNK_SIZE))

\* the coordinates any queue, set or map of the model can hold
WorldCoords ==
    {Origin} \cup {Coord(Origin.x + d.x, Origin.y + d.y, Origin.z + d.z) : d \in Directions}

\* the generation jobs for c that are queued, on a worker, or sent and not received
Outstanding(c) ==
    Count(chunk_gen_queue, c)
    + Cardinality({w \in GenWorkers : gen_worker[w] = Some(c)})
    + Cardinality({i \in DOMAIN chunk_channel : chunk_channel[i].coord = c})

\* C5: enqueue_chunk(c) is idempotent. A call for a coordinate already in the
\* loaded set leaves the generation queue and the loaded set unchanged; a call
\* for a coordinate not in it appends exactly one entry for c and adds c to the
\* loaded set; only reset takes a coordinate out of the loaded set. So a second
\* enqueue_chunk(c) right after a first one that enqueued c leaves exactly one
\* entry for c in the generation queue.
C5_IdempotentEnqueue ==
    [][ /\ (last'.op # "reset" => loaded_chunks \subseteq loaded_chunks')
        /\ (last'.op = "enqueue_chunk" =>
              LET c == last'.coord
              IN /\ c \in loaded_chunks =>
                      /\ chunk_gen_queue' = chunk_gen_queue
                      /\ loaded_chunks' = loaded_chunks
                 /\ c \notin loaded_chunks =>
                      /\ chunk_gen_queue' = Append(chunk_gen_queue, c)
                      /\ loaded_chunks' = loaded_chunks \cup {c}
                      /\ Count(chunk_gen_queue', c) = 1
                 /\ (last.op = "enqueue_chunk" /\ last.coord = c /\ last.inserted) =>
                      /\ chunk_gen_queue' = chunk_gen_queue
                      /\ Count(chunk_gen_queue', c) = 1) ]_vars

\* a second enqueue_chunk(c) returned while the entry of the first is still queued
C5_Witness ==
    /\ last.op = "enqueue_chunk"
    /\ ~last.inserted
    /\ Count(chunk_gen_queue, last.coord) = 1
    /\ resets = 0

\* C6 as stated: every coordinate has at most one outstanding generation job
C6_AtMostOneOutstanding == \A c \in WorldCoords : Outstanding(c) <= 1

\* C6, amended: the generation queue never holds two entries for one coordinate
\* and every queued coordinate is in the loaded set; a job that is on a worker or
\* in the channel when reset is called survives it, so a coordinate has at most
\* one outstanding job plus one for each reset called so far.
C6_OneJobPerReset ==
    \A c \in WorldCoords :
        /\ Count(chunk_gen_queue, c) <= 1
        /\ (Count(chunk_gen_queue, c) = 1 => c \in loaded_chunks)
        /\ (c \notin loaded_chunks => Outstanding(c) <= resets)
        /\ Outstanding(c) <= resets + 1

\* after one reset a coordinate is queued again while its earlier job is in flight
C6_Witness ==
    /\ resets = 1
    /\ Count(chunk_gen_queue, Origin) = 1
    /\ Outstanding(Origin) = 2

\* the entries of q2 after the first Len(q1), when q1 is a prefix of q2
Appended(q1, q2) == SubSeq(q2, Len(q1) + 1, Len(q2))

IsPrefix(q1, q2) == Len(q1) <= Len(q2) /\ SubSeq(q2, 1, Len(q1)) = q1

\* the calls that run enqueue_meshgen
MeshgenCalls == {"enqueue_meshgen", "receive_chunk", "enqueue_chunks_around"}

\* C7: enqueue_meshgen(c) leaves the meshing queue and the meshed set unchanged
\* while one of the six neighbours of c is absent from the chunk map, and every
\* entry that enqueue_meshgen appends (called directly, by receive_chunk or by
\* enqueue_chunks_around) has all six neighbours in the map at that moment.
C7_NoMeshWithoutNeighbours ==
    [][ /\ (last'.op = "enqueue_meshgen" /\ ~AllSixIn(chunks, last'.coord)) =>
              /\ meshgen_queue' = meshgen_queue
              /\ meshed_chunks' = meshed_chunks
        /\ last'.op \in MeshgenCalls =>
              /\ IsPrefix(meshgen_queue, meshgen_queue')
              /\ \A i \in DOMAIN Appended(meshgen_queue, meshgen_queue') :
                    AllSixIn(chunks', Appended(meshgen_queue, meshgen_queue')[i])
              /\ \A c \in meshed_chunks' \ meshed_chunks : AllSixIn(chunks', c) ]_vars

\* enqueue_meshgen(c) returned with five of the six neighbours of c in the map
C7_Witness ==
    /\ last.op = "enqueue_meshgen"
    /\ ~last.already
    /\ Cardinality({d \in Directions :
          Coord(last.coord.x + d.x, last.coord.y + d.y, last.coord.z + d.z)
              \in DOMAIN chunks}) = 5
    /\ last.coord \notin meshed_chunks

\* C8: enqueue_meshgen(c) is effective exactly once. Called with all six
\* neighbours in the map and c not yet meshed it appends c at the back of the
\* meshing queue and adds c to the meshed set; called for a meshed coordinate it
\* changes nothing; no coordinate ever leaves the meshed set; and whatever
\* enqueue_meshgen appends was not in the meshed set before and is appended once.
C8_MeshgenEffectiveOnce ==
    [][ /\ meshed_chunks \subseteq meshed_chunks'
        /\ last'.op = "enqueue_meshgen" =>
              LET c == last'.coord
              IN /\ (AllSixIn(chunks, c) /\ c \notin meshed_chunks) =>
                      /\ meshgen_queue' = Append(meshgen_queue, c)
                      /\ meshed_chunks' = meshed_chunks \cup {c}
                 /\ c \in meshed_chunks =>
                      /\ meshgen_queue' = meshgen_queue
                      /\ meshed_chunks' = meshed_chunks
        /\ last'.op \in MeshgenCalls =>
              LET added == Appended(meshgen_queue, meshgen_queue')
              IN /\ IsPrefix(meshgen_queue, meshgen_queue')
                 /\ \A i \in DOMAIN added :
                       /\ added[i] \notin meshed_chunks
                       /\ added[i] \in meshed_chunks'
                       /\ Count(added, added[i]) = 1 ]_vars

\* a later enqueue_meshgen(c), all six neighbours present, found c meshed
C8_Witness ==
    /\ last.op = "enqueue_meshgen"
    /\ last.already
    /\ AllSixIn(chunks, last.coord)
    /\ Count(meshgen_queue, last.coord) = 1

\* the local axis value of world axis value v inside its chunk
LocalAxis(v) == v - FloorDiv(v, CHUNK_SIZE) * CHUNK_SIZE

\* the unit steps towards the chunk faces that position p lies on
FacesOf(p) ==
    {d \in Directions :
        \/ d.x = -1 /\ LocalAxis(p.x) = 0
        \/ d.x = 1 /\ LocalAxis(p.x) = CHUNK_SIZE - 1
        \/ d.y = -1 /\ LocalAxis(p.y) = 0
        \/ d.y = 1 /\ LocalAxis(p.y) = CHUNK_SIZE - 1
        \/ d.z = -1 /\ LocalAxis(p.z) = 0
        \/ d.z = 1 /\ LocalAxis(p.z) = CHUNK_SIZE - 1}

\* the chunk of p and its neighbours across the faces p lies on
Remeshed(p) ==
    LET C == ChunkOfPosition(p)
    IN {C} \cup {Coord(C.x + d.x, C.y + d.y, C.z + d.z) : d \in FacesOf(p)}

EditCalls == {"set_voxel", "break_block"}

\* C9: set_voxel(p, v) on a position whose chunk C is in the chunk map adds to the
\* meshing queue exactly one entry for C and one for each neighbour of C across a
\* face that p lies on, and no other entry; no entry is removed.
C9_EditPropagates ==
    [][ (last'.op \in EditCalls /\ ChunkOfPosition(last'.position) \in DOMAIN chunks) =>
           /\ Len(meshgen_queue') = Len(meshgen_queue) + Cardinality(Remeshed(last'.position))
           /\ \A c \in WorldCoords :
                 Count(meshgen_queue', c) =
                    Count(meshgen_queue, c) + (IF c \in Remeshed(last'.position) THEN 1 ELSE 0) ]_vars

\* set_voxel at local x = 0, z = CHUNK_SIZE-1 of the loaded chunk Origin queued
\* Origin, its left and its back neighbour
C9_Witness ==
    /\ last.op = "set_voxel"
    /\ last.position = Coord(0, 1, CHUNK_SIZE - 1)
    /\ Origin \in DOMAIN chunks
    /\ Len(meshgen_queue) >= 3
    /\ {meshgen_queue[1], meshgen_queue[2], meshgen_queue[3]}
          = {Origin, ChunkLeft(Origin), ChunkBack(Origin)}

\* C10: set_voxel(p, v) and break_block(p) at a position whose chunk is not in the
\* chunk map change nothing: the chunk map, the generation queue, the meshing
\* queue, the loaded set, the meshed set, the model map and the chunk channel
\* stay as they were.
C10_UnloadedEditNoOp ==
    [][ (last'.op \in EditCalls /\ ChunkOfPosition(last'.position) \notin DOMAIN chunks) =>
           UNCHANGED <<chunks, chunk_gen_queue, meshgen_queue, loaded_chunks,
                       meshed_chunks, models, chunk_channel>> ]_vars

\* break_block returned for a position in a chunk that is not loaded while other
\* chunks are
C10_Witness ==
    /\ last.op = "break_block"
    /\ ChunkOfPosition(last.position) \notin DOMAIN chunks
    /\ DOMAIN chunks # {}

(***************************************************************************)
(* Claims about reset                                                      *)
(***************************************************************************)
\* C12: right after reset() returns, the generation queue, the meshing queue,
\* the loaded set, the meshed set, the chunk map and the model map are empty
C12_ResetEmptiesAll ==
    last.op = "reset" =>
        /\ chunk_gen_queue = <<>>
        /\ meshgen_queue = <<>>
        /\ loaded_chunks = {}
        /\ meshed_chunks = {}
        /\ DOMAIN chunks = {}
        /\ DOMAIN models = {}

(***************************************************************************)
(* mod.rs, chunk.rs: reading and writing voxels                            *)
(***************************************************************************)
\* get_voxel that treats an unloaded chunk as air
WorldGetVoxelAsAir(m, coord) ==
    LET chunk_coord == ChunkCoordFrom(coord)
        local_coord == ChunkLocalCoordFrom(coord)
    IN IF chunk_coord \notin DOMAIN m THEN Some(AIR)
       ELSE ChunkGetVoxel(m[chunk_coord], local_coord)

\* WorldAccessor::get_voxel (World::get_voxel has the same body)
WorldGetVoxel(m, coord) ==
    LET chunk_coord == ChunkCoordFrom(coord)
        local_coord == ChunkLocalCoordFrom(coord)
    IN IF chunk_coord \notin DOMAIN m THEN None
       ELSE ChunkGetVoxel(m[chunk_coord], local_coord)

\* the chunks of the voxel store under test
VoxelChunks == {Origin, ChunkFront(Origin)}

\* local coordinates handed to Chunk::get_voxel and Chunk::set_voxel: three
\* in range, and one past the end of each axis
ProbeLocals ==
    { Coord(0, 0, 0), Coord(0, 1, 0), Coord(0, 0, 1),
      Coord(CHUNK_SIZE, 0, 0), Coord(0, CHUNK_SIZE, 0), Coord(0, 0, CHUNK_SIZE) }

\* world positions handed to WorldAccessor::get_voxel
ProbeWorld ==
    { Coord(0, 0, 0), Coord(0, 1, 0), Coord(0, 0, 1),
      Coord(0, 0, -CHUNK_SIZE), Coord(0, 0, 1 - CHUNK_SIZE) }

\* World::new, then the chunks of some subset of VoxelChunks generated and received
InitVoxel ==
    /\ cin = None
    /\ cout = None
    /\ \E loaded \in SUBSET VoxelChunks :
          /\ chunks = [c \in loaded |-> Generate(ChunkNew(c))]
          /\ loaded_chunks = loaded
    /\ models = EmptyMap
    /\ chunk_gen_queue = <<>>
    /\ meshgen_queue = <<>>
    /\ meshed_chunks = {}
    /\ chunk_channel = <<>>
    /\ gen_worker = [w \in GenWorkers |-> None]
    /\ mesh_worker = [w \in MeshWorkers |-> MeshIdle]
    /\ mesh_channel = <<>>
    /\ owner = OwnerIdle
    /\ held = NoneHeld
    /\ last = NoCall
    /\ resets = 0

\* Chunk::set_voxel(l, voxel) on the chunk stored at c
ChunkSetCall(c, l, voxel) ==
    /\ c \in DOMAIN chunks
    /\ chunks' = [chunks EXCEPT ![c] = ChunkSetVoxel(@, l, voxel)]
    /\ cin' = [op |-> "chunk_set", coord |-> c, l |-> l, voxel |-> voxel]
    /\ cout' = None
    /\ UNCHANGED <<meshVars, models, chunk_gen_queue, meshgen_queue, loaded_chunks,
                   meshed_chunks, chunk_channel, gen_worker, last, resets>>

\* Chunk::get_voxel(l) on the chunk stored at c
ChunkGetCall(c, l) ==
    /\ c \in DOMAIN chunks
    /\ cin' = [op |-> "chunk_get", coord |-> c, l |-> l]
    /\ cout' = Some(ChunkGetVoxel(chunks[c], l))
    /\ UNCHANGED <<meshVars, chunks, models, chunk_gen_queue, meshgen_queue, loaded_chunks,
                   meshed_chunks, chunk_channel, gen_worker, last, resets>>

\* WorldAccessor::get_voxel(coord)
AccessorGetVoxel(coord) ==
    /\ cin' = [op |-> "get_voxel", w |-> coord]
    /\ cout' = Some(WorldGetVoxel(chunks, coord))
    /\ UNCHANGED <<meshVars, chunks, models, chunk_gen_queue, meshgen_queue, loaded_chunks,
                   meshed_chunks, chunk_channel, gen_worker, last, resets>>

NextVoxel ==
    \/ \E c \in VoxelChunks, l \in ProbeLocals, v \in Voxels : ChunkSetCall(c, l, v)
    \/ \E c \in VoxelChunks, l \in ProbeLocals : ChunkGetCall(c, l)
    \/ \E w \in ProbeWorld : AccessorGetVoxel(w)

SpecVoxel == InitVoxel /\ [][NextVoxel]_vars

(***************************************************************************)
(* Claims about reading and writing voxels                                 *)
(***************************************************************************)
\* c records a call of the operation named op
IsCall(c, op) == "op" \in DOMAIN c /\ c.op = op

\* the index of the voxel of world position p inside its chunk's array
IndexOfPosition(p) ==
    LocalAxis(p.x) + LocalAxis(p.y) * CHUNK_SIZE + LocalAxis(p.z) * CHUNK_SIZE * CHUNK_SIZE

\* C13: WorldAccessor::get_voxel(w) returns None when the chunk of w is not in
\* the chunk map and otherwise the voxel stored in that chunk at the local
\* coordinate of w; the call leaves the chunk map and every chunk as they were.
C13_AccessorGetVoxel ==
    [][ IsCall(cin', "get_voxel") =>
        LET w == cin'.w
            C == ChunkOfPosition(w)
        IN /\ chunks' = chunks
           /\ C \notin DOMAIN chunks => cout' = Some(None)
           /\ C \in DOMAIN chunks =>
                 cout' = Some(Some(DataAt(chunks[C].chunk_data, IndexOfPosition(w)))) ]_vars

\* get_voxel returned the stone stored at local z = 1 of the chunk in front of
\* the origin, for a negative world z
C13_Witness ==
    /\ IsCall(cin, "get_voxel")
    /\ cin.w = Coord(0, 0, 1 - CHUNK_SIZE)
    /\ ChunkFront(Origin) \in DOMAIN chunks
    /\ cout = Some(Some(STONE))

\* some axis of l is outside [0, CHUNK_SIZE)
OutsideChunk(l) ==
    \E a \in {l.x, l.y, l.z} : a < 0 \/ a > CHUNK_SIZE - 1

\* C14: with some axis of l outside [0, CHUNK_SIZE), Chunk::get_voxel(l) returns
\* None and Chunk::set_voxel(l, v) changes no voxel of any chunk.
C14_OutOfRangeAccess ==
    [][ /\ (IsCall(cin', "chunk_get") /\ OutsideChunk(cin'.l)) =>
              cout' = Some(None) /\ chunks' = chunks
        /\ (IsCall(cin', "chunk_set") /\ OutsideChunk(cin'.l)) =>
              chunks' = chunks ]_vars

\* set_voxel of stone at y = CHUNK_SIZE returned on a chunk that is still all air
C14_Witness ==
    /\ IsCall(cin, "chunk_set")
    /\ cin.l = Coord(0, CHUNK_SIZE, 0)
    /\ cin.voxel = STONE
    /\ DOMAIN chunks[cin.coord].chunk_data = {}

\* the in-range coordinates among those probed
InRangeProbes == {l \in ProbeLocals : ~OutsideChunk(l)}

\* C15: a chunk is a map from in-range local coordinates to voxels that starts
\* as air everywhere: every voxel of a new chunk reads as air, and after
\* set_voxel(l, v) at an in-range l, get_voxel(l) is v and get_voxel at every
\* other in-range coordinate is what it was before.
C15_ChunkIsMap ==
    /\ \A c \in DOMAIN chunks : \A l \in InRangeProbes :
          ChunkGetVoxel(chunks[c], l) = Some(AIR)
    /\ [][ (IsCall(cin', "chunk_set") /\ ~OutsideChunk(cin'.l)) =>
              /\ DOMAIN chunks' = DOMAIN chunks
              /\ \A c \in DOMAIN chunks : \A l \in InRangeProbes :
                    ChunkGetVoxel(chunks'[c], l) =
                       IF c = cin'.coord /\ l = cin'.l THEN Some(cin'.voxel)
                       ELSE ChunkGetVoxel(chunks[c], l) ]_vars

\* a chunk holds stone at (0,1,0) and, after a later set_voxel of air at
\* (0,0,1), still does
C15_Witness ==
    /\ IsCall(cin, "chunk_set")
    /\ cin.l = Coord(0, 0, 1)
    /\ cin.voxel = AIR
    /\ ChunkGetVoxel(chunks[cin.coord], Coord(0, 1, 0)) = Some(STONE)
    /\ ChunkGetVoxel(chunks[cin.coord], Coord(0, 0, 1)) = Some(AIR)

(***************************************************************************)
(* voxel.rs: the block registry; mod.rs: ray_hit                           *)
(***************************************************************************)
\* Blocks::BLOCKS: AIR, STONE, GRASS_BLOCK, DIRT_BLOCK, LOG
BLOCKS ==
    << [transparent |-> TRUE,  solid |-> FALSE],
       [transparent |-> FALSE, solid |-> TRUE],
       [transparent |-> FALSE, solid |-> TRUE],
       [transparent |-> FALSE, solid |-> TRUE],
       [transparent |-> FALSE, solid |-> TRUE] >>

\* a registry in which every block is solid
BlockInfoAllSolid(id) == [transparent |-> BLOCKS[id + 1].transparent, solid |-> TRUE]

\* Blocks::BLOCKS[voxel.id as usize]
BlockInfo(id) == BLOCKS[id + 1]

\* MAX_DISTANCE of ray_hit, and the number of 0.1 steps in one unit of distance
MAX_DISTANCE == 32
StepsPerUnit == 10

\* the rays cast: axis directions from integer origins
Rays ==
    { [origin |-> Coord(0, 0, 5), direction |-> Coord(0, 0, -1)],
      [origin |-> Coord(0, 0, -3), direction |-> Coord(0, 0, 1)] }

\* the voxels a generator may have made solid before the ray is cast
RayTargets == {Coord(0, 0, 0), Coord(0, 0, 2)}

\* ray.origin + ray.direction * distance after k steps, in tenths of a unit
RayPoint(ray, k) ==
    Coord(ray.origin.x * StepsPerUnit + ray.direction.x * k,
          ray.origin.y * StepsPerUnit + ray.direction.y * k,
          ray.origin.z * StepsPerUnit + ray.direction.z * k)

\* the floor of one component of the k-th sample point. The distance is an
\* f32 sum of k steps of 0.1 and is off the exact k/10 by a rounding error far
\* below one step, in either direction: a sample that is exactly on an integer
\* along the ray's axis falls on either side of it.
AxisCells(t, dir, k) ==
    IF k > 0 /\ dir # 0 /\ t % StepsPerUnit = 0
    THEN {FloorDiv(t, StepsPerUnit) - 1, FloorDiv(t, StepsPerUnit)}
    ELSE {FloorDiv(t, StepsPerUnit)}

\* the world coordinates WorldCoord::from(point) can give for the k-th sample
SampleCells(ray, k) ==
    LET pt == RayPoint(ray, k)
    IN {Coord(x, y, z) : x \in AxisCells(pt.x, ray.direction.x, k),
                         y \in AxisCells(pt.y, ray.direction.y, k),
                         z \in AxisCells(pt.z, ray.direction.z, k)}

\* World::new, then chunks generated with some of RayTargets solid and received
InitRay ==
    /\ cin = None
    /\ cout = None
    /\ \E loaded \in SUBSET VoxelChunks, solid \in SUBSET RayTargets :
          /\ chunks = [c \in loaded |->
                         LET g == Generate(ChunkNew(c))
                             g1 == IF Coord(0, 0, 0) \in solid /\ c = Origin
                                   THEN ChunkSetVoxel(g, Coord(0, 0, 0), STONE) ELSE g
                         IN IF Coord(0, 0, 2) \in solid /\ c = Origin
                            THEN ChunkSetVoxel(g1, Coord(0, 0, 2), STONE) ELSE g1]
          /\ loaded_chunks = loaded
    /\ models = EmptyMap
    /\ chunk_gen_queue = <<>>
    /\ meshgen_queue = <<>>
    /\ meshed_chunks = {}
    /\ chunk_channel = <<>>
    /\ gen_worker = [w \in GenWorkers |-> None]
    /\ mesh_worker = [w \in MeshWorkers |-> MeshIdle]
    /\ mesh_channel = <<>>
    /\ owner = OwnerIdle
    /\ held = NoneHeld
    /\ last = NoCall
    /\ resets = 0

\* ray_hit(ray, None): entry, distance = 0.0
RayStart(ray) ==
    /\ cin = None
    /\ cin' = [op |-> "ray_hit", ray |-> ray]
    /\ cout' = [k |-> 0, done |-> FALSE, result |-> None]
    /\ UNCHANGED worldVars

\* the loop test `distance < MAX_DISTANCE`: the sum of MAX_DISTANCE * 10 steps
\* is MAX_DISTANCE up to rounding, on either side of it
RayInside(k) == k <= MAX_DISTANCE * StepsPerUnit

RayOutside(k) == k >= MAX_DISTANCE * StepsPerUnit

\* one iteration of ray_hit's loop
RaySample ==
    /\ IsCall(cin, "ray_hit")
    /\ ~cout.done
    /\ RayInside(cout.k)
    /\ \E world_coord \in SampleCells(cin.ray, cout.k) :
          LET result == WorldGetVoxel(chunks, world_coord)
          IN cout' = IF result.some /\ BlockInfo(result.val).solid
                     THEN [k |-> cout.k, done |-> TRUE,
                           result |-> Some([coord |-> world_coord,
                                            point |-> RayPoint(cin.ray, cout.k),
                                            voxel |-> result.val])]
                     ELSE [k |-> cout.k + 1, done |-> FALSE, result |-> None]
    /\ UNCHANGED <<cin, worldVars>>

\* ray_hit leaves its loop and returns None
RayExit ==
    /\ IsCall(cin, "ray_hit")
    /\ ~cout.done
    /\ RayOutside(cout.k)
    /\ cout' = [k |-> cout.k, done |-> TRUE, result |-> None]
    /\ UNCHANGED <<cin, worldVars>>

NextRay == (\E ray \in Rays : RayStart(ray)) \/ RaySample \/ RayExit

SpecRay == InitRay /\ [][NextRay]_vars

\* the voxel at world coordinate w is in a loaded chunk and solid
SolidAt(w) ==
    /\ ChunkOfPosition(w) \in DOMAIN chunks
    /\ DataAt(chunks[ChunkOfPosition(w)].chunk_data, IndexOfPosition(w)) # AIR

\* the world coordinates the ray can sample before its k-th sample
CellsBefore(ray, k) == UNION {SampleCells(ray, j) : j \in 0..(k - 1)}

\* the samples before the k-th whose world coordinate does not depend on rounding
SureBefore(ray, k) ==
    {j \in 0..(k - 1) : Cardinality(SampleCells(ray, j)) = 1}

TheRay == [origin |-> Coord(0, 0, 5), direction |-> Coord(0, 0, -1)]

\* C16: ray_hit takes its samples in increasing distance, 0.1 apart and not
\* beyond 32.0, floors each to a world coordinate and returns the first sample
\* whose voxel is loaded and solid, with that sample's coordinate, point and
\* voxel; it skips non-solid and unloaded samples and returns None when it has
\* passed 32.0 without a solid sample. The ray from (0,0,5) toward -z returns
\* world coordinate (0,0,0) when only that voxel is solid, and None when no
\* voxel is solid.
C16_RayHit ==
    IsCall(cin, "ray_hit") =>
        /\ cout.k <= MAX_DISTANCE * StepsPerUnit + 1
        /\ \A j \in SureBefore(cin.ray, cout.k) :
              \A w \in SampleCells(cin.ray, j) : ~SolidAt(w)
        /\ (cout.done /\ cout.result.some) =>
              /\ cout.k <= MAX_DISTANCE * StepsPerUnit
              /\ cout.result.val.coord \in SampleCells(cin.ray, cout.k)
              /\ cout.result.val.point = RayPoint(cin.ray, cout.k)
              /\ SolidAt(cout.result.val.coord)
              /\ WorldGetVoxel(chunks, cout.result.val.coord) = Some(cout.result.val.voxel)
        /\ (cout.done /\ ~cout.result.some) =>
              cout.k >= MAX_DISTANCE * StepsPerUnit
        /\ (cout.done /\ cin.ray = TheRay /\ SolidAt(Coord(0, 0, 0))
              /\ ~SolidAt(Coord(0, 0, 2))) =>
              (cout.result.some /\ cout.result.val.coord = Coord(0, 0, 0))
        /\ (cout.done /\ \A w \in RayTargets : ~SolidAt(w)) => ~cout.result.some

\* the ray from (0,0,5) toward -z returned the solid voxel at the world origin
C16_Witness ==
    /\ IsCall(cin, "ray_hit")
    /\ cin.ray = TheRay
    /\ cout.done
    /\ cout.result.some
    /\ cout.result.val.coord = Coord(0, 0, 0)
    /\ ~SolidAt(Coord(0, 0, 2))

(***************************************************************************)
(* meshgen.rs: generate_model, the surface extractor                       *)
(***************************************************************************)
\* the faces in the order generate_model tests them, with the texture slot
\* each one is given
Orientations == <<"Left", "Right", "Top", "Bottom", "Front", "Back">>

\* WorldCoord::left, right, up, down, front, back
WorldStep(w, o) ==
    CASE o = "Left" -> Coord(w.x - 1, w.y, w.z)
      [] o = "Right" -> Coord(w.x + 1, w.y, w.z)
      [] o = "Top" -> Coord(w.x, w.y + 1, w.z)
      [] o = "Bottom" -> Coord(w.x, w.y - 1, w.z)
      [] o = "Front" -> Coord(w.x, w.y, w.z - 1)
      [] o = "Back" -> Coord(w.x, w.y, w.z + 1)

\* the face test that emits nothing towards an unloaded chunk
FaceVisibleLoadedOnly(neighbour) ==
    neighbour.some /\ BlockInfo(neighbour.val).transparent

\* the test on the neighbour voxel: a face is pushed when get_voxel gave a
\* transparent voxel, and when it gave None
FaceVisible(neighbour) ==
    IF neighbour.some THEN BlockInfo(neighbour.val).transparent ELSE TRUE

\* the faces pushed for the voxel at offset (x, y, z) of the chunk at chunk_coord
RECURSIVE FacesOfVoxel(_, _, _, _)
FacesOfVoxel(m, chunk_coord, offset, t) ==
    IF t > Len(Orientations) THEN <<>>
    ELSE LET sampled_coord == FromChunkAndLocal(chunk_coord, offset)
             neighbour == WorldGetVoxel(m, WorldStep(sampled_coord, Orientations[t]))
             rest == FacesOfVoxel(m, chunk_coord, offset, t + 1)
         IN IF FaceVisible(neighbour)
            THEN <<[offset |-> offset, orientation |-> Orientations[t],
                    texture_slot |-> t - 1]>> \o rest
            ELSE rest

\* the offset whose voxel Chunk::translate_index puts at index i
OffsetOfIndex(i) ==
    Coord(i % CHUNK_SIZE, (i \div CHUNK_SIZE) % CHUNK_SIZE, i \div (CHUNK_SIZE * CHUNK_SIZE))

\* the position of offset o in the x, y, z nesting of generate_model's loops
LoopRank(o) == (o.x * CHUNK_SIZE + o.y) * CHUNK_SIZE + o.z

\* the loops of generate_model over the offsets in todo, in loop order; the
\* voxels at all other offsets are air, for which the body `continue`s
RECURSIVE ModelLoop(_, _, _)
ModelLoop(m, chunk_coord, todo) ==
    IF todo = {} THEN <<>>
    ELSE LET offset == CHOOSE o \in todo : \A o2 \in todo : LoopRank(o) <= LoopRank(o2)
             current_voxel == WorldGetVoxel(m, FromChunkAndLocal(chunk_coord, offset))
             rest == ModelLoop(m, chunk_coord, todo \ {offset})
         IN IF BlockInfo(current_voxel.val).transparent THEN rest
            ELSE FacesOfVoxel(m, chunk_coord, offset, 1) \o rest

\* the index array face() returns with the four vertices of a quad
FaceIdx(orientation) ==
    CASE orientation = "Back" -> <<0, 1, 2, 0, 2, 3>>
      [] orientation = "Front" -> <<0, 2, 1, 0, 3, 2>>
      [] orientation = "Left" -> <<0, 2, 1, 0, 3, 2>>
      [] orientation = "Right" -> <<0, 2, 1, 0, 3, 2>>
      [] orientation = "Bottom" -> <<0, 1, 2, 0, 2, 3>>
      [] orientation = "Top" -> <<0, 2, 1, 0, 3, 2>>

\* the length of the vertex array face() returns: [Vertex3d; 4]
FaceVertexCount == 4

\* the two pushes in the other order: the vertices first, then the indices
PushFaceVerticesFirst(buffers, f) ==
    LET vertices_len == buffers.vertices_len + FaceVertexCount
    IN [vertices_len |-> vertices_len,
        indices |-> buffers.indices \o
                       [j \in 1..Len(FaceIdx(f.orientation)) |->
                           FaceIdx(f.orientation)[j] + vertices_len]]

\* the two pushes made for one face: each index plus vertices.len() onto
\* indices, then the face's vertices onto vertices
PushFace(buffers, f) ==
    [vertices_len |-> buffers.vertices_len + FaceVertexCount,
     indices |-> buffers.indices \o
                    [j \in 1..Len(FaceIdx(f.orientation)) |->
                        FaceIdx(f.orientation)[j] + buffers.vertices_len]]

\* vertices and indices after the pushes of faces[t], faces[t+1], ...
RECURSIVE PushFaces(_, _, _)
PushFaces(buffers, faces, t) ==
    IF t > Len(faces) THEN buffers
    ELSE PushFaces(PushFace(buffers, faces[t]), faces, t + 1)

\* Mesh::create over the two buffers
MeshOf(faces, buffers) ==
    [faces |-> faces, vertices |-> buffers.vertices_len,
     indices |-> Len(buffers.indices), index_buffer |-> buffers.indices]

\* the end of generate_model that wraps an empty mesh too
MeshResultAlways(faces) ==
    Some(MeshOf(faces, PushFaces([vertices_len |-> 0, indices |-> <<>>], faces, 1)))

\* the end of generate_model: None for an empty vertex list, else the model
MeshResult(faces) ==
    LET buffers == PushFaces([vertices_len |-> 0, indices |-> <<>>], faces, 1)
    IN IF buffers.vertices_len = 0 THEN None ELSE Some(MeshOf(faces, buffers))

\* generate_model(device, bg_layout, chunk, world) with m the world's chunk map;
\* the unwrap of the chunk's own voxel panics when the chunk is not in the map
GenerateModel(chunk, m) ==
    IF chunk.coord \notin DOMAIN m THEN [panic |-> TRUE]
    ELSE MeshResult(ModelLoop(m, chunk.coord,
                              {OffsetOfIndex(i) : i \in DOMAIN m[chunk.coord].chunk_data}))

\* the offsets of chunk Origin a generator may have filled: an interior voxel
\* with its six neighbours, and a voxel on the x = 0 and z = CHUNK_SIZE-1 faces
InteriorVoxel == Coord(1, 1, 1)

InteriorBlock ==
    {InteriorVoxel} \cup {Coord(InteriorVoxel.x + d.x, InteriorVoxel.y + d.y,
                                InteriorVoxel.z + d.z) : d \in Directions}

CornerVoxel == Coord(0, 1, CHUNK_SIZE - 1)

\* the voxel of the left neighbour chunk that touches CornerVoxel
AcrossVoxel == Coord(CHUNK_SIZE - 1, 1, CHUNK_SIZE - 1)

\* a generated chunk with stone at the offsets of the set filled
RECURSIVE Filled(_, _)
Filled(chunk, filled) ==
    IF filled = {} THEN chunk
    ELSE LET o == CHOOSE o \in filled : TRUE
         IN Filled(ChunkSetVoxel(chunk, o, STONE), filled \ {o})

\* World::new, then chunk Origin and possibly its left neighbour generated with
\* some of these voxels stone, and received
InitExtract ==
    /\ cin = None
    /\ cout = None
    /\ \E block \in SUBSET InteriorBlock, corner \in SUBSET {CornerVoxel},
          left \in {"unloaded", "air", "stone"} :
          LET origin_chunk == Filled(Generate(ChunkNew(Origin)), block \cup corner)
              left_chunk == Filled(Generate(ChunkNew(ChunkLeft(Origin))),
                                   IF left = "stone" THEN {AcrossVoxel} ELSE {})
          IN /\ chunks = [c \in (IF left = "unloaded" THEN {Origin}
                                 ELSE {Origin, ChunkLeft(Origin)}) |->
                            IF c = Origin THEN origin_chunk ELSE left_chunk]
             /\ loaded_chunks = DOMAIN chunks
    /\ models = EmptyMap
    /\ chunk_gen_queue = <<>>
    /\ meshgen_queue = <<>>
    /\ meshed_chunks = {}
    /\ chunk_channel = <<>>
    /\ gen_worker = [w \in GenWorkers |-> None]
    /\ mesh_worker = [w \in MeshWorkers |-> MeshIdle]
    /\ mesh_channel = <<>>
    /\ owner = OwnerIdle
    /\ held = NoneHeld
    /\ last = NoCall
    /\ resets = 0

\* generate_model for the chunk stored at c
ExtractModel(c) ==
    /\ cin = None
    /\ c \in DOMAIN chunks
    /\ cin' = [op |-> "generate_model", coord |-> c]
    /\ cout' = Some(GenerateModel(chunks[c], chunks))
    /\ UNCHANGED worldVars

NextExtract == \E c \in {Origin, ChunkLeft(Origin)} : ExtractModel(c)

SpecExtract == InitExtract /\ [][NextExtract]_vars

(***************************************************************************)
(* Claims about the surface extractor                                      *)
(***************************************************************************)
\* the voxel at world coordinate w is in a loaded chunk and is not transparent
\* (air is the only transparent block)
OpaqueAt(w) ==
    /\ ChunkOfPosition(w) \in DOMAIN chunks
    /\ DataAt(chunks[ChunkOfPosition(w)].chunk_data, IndexOfPosition(w)) # AIR

\* the unit step along the normal of a face
NormalOf(o) ==
    CASE o = "Left" -> Coord(-1, 0, 0)
      [] o = "Right" -> Coord(1, 0, 0)
      [] o = "Top" -> Coord(0, 1, 0)
      [] o = "Bottom" -> Coord(0, -1, 0)
      [] o = "Front" -> Coord(0, 0, -1)
      [] o = "Back" -> Coord(0, 0, 1)

\* the offsets at which some chunk of the extractor's inputs can hold stone
FillableOffsets == InteriorBlock \cup {CornerVoxel, AcrossVoxel}

\* the faces a chunk at c must show: a non-transparent voxel next to a voxel
\* that is absent or transparent
ExpectedFaces(c) ==
    {f \in FillableOffsets \X Directions :
        LET w == Coord(c.x * CHUNK_SIZE + f[1].x, c.y * CHUNK_SIZE + f[1].y,
                       c.z * CHUNK_SIZE + f[1].z)
        IN /\ OpaqueAt(w)
           /\ ~OpaqueAt(Coord(w.x + f[2].x, w.y + f[2].y, w.z + f[2].z))}

Extracted == IsCall(cin, "generate_model") /\ cout.some

\* the faces of the extractor's result, none when it returned None
ExtractedFaces == IF cout.val.some THEN cout.val.val.faces ELSE <<>>

\* C17: the extractor emits a face for a voxel and a direction if and only if
\* the voxel is not transparent and the adjacent voxel in that direction, looked
\* up through the world, is absent or transparent, and emits each such face
\* once. A solid voxel with six solid neighbours has no face, and a single solid
\* voxel in air gives 6 faces, 24 vertices and 36 indices.
C17_FaceCulling ==
    Extracted =>
        /\ {<<ExtractedFaces[i].offset, NormalOf(ExtractedFaces[i].orientation)>> :
               i \in DOMAIN ExtractedFaces} = ExpectedFaces(cin.coord)
        /\ Len(ExtractedFaces) = Cardinality(ExpectedFaces(cin.coord))
        /\ (cin.coord = Origin /\ DOMAIN chunks[Origin].chunk_data
               = {InteriorVoxel.x + InteriorVoxel.y * CHUNK_SIZE
                    + InteriorVoxel.z * CHUNK_SIZE * CHUNK_SIZE}) =>
              /\ Len(ExtractedFaces) = 6
              /\ cout.val.val.vertices = 24
              /\ cout.val.val.indices = 36
        /\ (cin.coord = Origin /\ \A o \in InteriorBlock : OpaqueAt(o)) =>
              \A i \in DOMAIN ExtractedFaces : ExtractedFaces[i].offset # InteriorVoxel

\* the voxel on the x = 0 face got its left face while the left chunk is not
\* loaded, and the enclosed interior voxel got none
C17_Witness ==
    /\ Extracted
    /\ cin.coord = Origin
    /\ ChunkLeft(Origin) \notin DOMAIN chunks
    /\ \A o \in InteriorBlock : OpaqueAt(o)
    /\ \E i \in DOMAIN ExtractedFaces :
          ExtractedFaces[i].offset = CornerVoxel /\ ExtractedFaces[i].orientation = "Left"

\* C18: the extractor returns None exactly when it emitted no face, that is when
\* no non-transparent voxel of the chunk has an absent or transparent
\* neighbour, and otherwise returns a mesh that has faces.
C18_NoneIffNoFaces ==
    Extracted =>
        /\ cout.val = None <=> ExpectedFaces(cin.coord) = {}
        /\ cout.val # None =>
              (cout.val.some /\ Len(cout.val.val.faces) > 0 /\ cout.val.val.vertices > 0)

\* the extractor returned None for a chunk that holds only air
C18_Witness ==
    /\ Extracted
    /\ cin.coord = Origin
    /\ DOMAIN chunks[Origin].chunk_data = {}
    /\ cout.val = None

\* C30: in a mesh the extractor built, the vertex count is 4 times and the
\* index count 6 times the number of faces, the six indices of the k-th face
\* (k from 0) lie in 4k..4k+3, and every index is below the vertex count.
C30_IndicesInQuad ==
    (Extracted /\ cout.val.some) =>
        LET mesh == cout.val.val
            n == Len(mesh.faces)
        IN /\ mesh.vertices = 4 * n
           /\ mesh.indices = 6 * n
           /\ Len(mesh.index_buffer) = 6 * n
           /\ \A k \in 0..(n - 1) : \A j \in 1..6 :
                 /\ mesh.index_buffer[6 * k + j] >= 4 * k
                 /\ mesh.index_buffer[6 * k + j] <= 4 * k + 3
           /\ \A i \in DOMAIN mesh.index_buffer : mesh.index_buffer[i] < mesh.vertices

\* a mesh of two voxels: its later faces take their indices above the first quad
C30_Witness ==
    /\ Extracted
    /\ cout.val.some
    /\ Len(cout.val.val.faces) >= 7
    /\ \E i, j \in DOMAIN cout.val.val.faces :
          cout.val.val.faces[i].offset # cout.val.val.faces[j].offset

\* RegisteredBlock::texture_ids, the slot the registry documents for the face
\* with a given normal: 0 left, 1 right, 2 top, 3 bottom, 4 back, 5 front
RegistrySlot(normal) ==
    CASE normal = Coord(-1, 0, 0) -> 0
      [] normal = Coord(1, 0, 0) -> 1
      [] normal = Coord(0, 1, 0) -> 2
      [] normal = Coord(0, -1, 0) -> 3
      [] normal = Coord(0, 0, 1) -> 4
      [] normal = Coord(0, 0, -1) -> 5

\* C31: each emitted face is textured from the texture_ids slot the registry
\* documents for the face's own orientation: the face with normal +z (back)
\* from slot 4 and the face with normal -z (front) from slot 5.
C31_TextureSlotOfFace ==
    Extracted =>
        \A i \in DOMAIN ExtractedFaces :
            ExtractedFaces[i].texture_slot
                = RegistrySlot(NormalOf(ExtractedFaces[i].orientation))

(***************************************************************************)
(* mod.rs: the meshing workers and dequeue_meshgen                         *)
(***************************************************************************)
\* the faces of the voxel at offset of the snapshot, neighbours read through
\* the accessor
RECURSIVE SnapshotLoop(_, _, _)
SnapshotLoop(chunk, m, todo) ==
    IF todo = {} THEN <<>>
    ELSE LET offset == CHOOSE o \in todo : \A o2 \in todo : LoopRank(o) <= LoopRank(o2)
             current_voxel == ChunkGetVoxel(chunk, offset)
             rest == SnapshotLoop(chunk, m, todo \ {offset})
         IN IF BlockInfo(current_voxel.val).transparent THEN rest
            ELSE FacesOfVoxel(m, chunk.coord, offset, 1) \o rest

\* generate_mesh_lod(chunk, world_accessor, LodLevel::_0): the surface
\* extractor run on the worker's snapshot against the world accessor
GenerateMeshLod(chunk, m) ==
    MeshResult(SnapshotLoop(chunk, m, {OffsetOfIndex(i) : i \in DOMAIN chunk.chunk_data}))

\* the limits dequeue_meshgen is called with
DequeueLimits == {0, 1}

\* the position edited while the meshing workers run: on the x = 0 and
\* z = CHUNK_SIZE-1 faces of chunk (0,0,0), so that an edit queues three chunks
MeshEditPositions == { Coord(0, 1, CHUNK_SIZE - 1) }

\* the chunks streamed in before the observed calls start: Origin alone, or
\* Origin after its six neighbours (which puts it into the meshing queue)
MeshStreamOrders ==
    { <<Origin>>,
      <<ChunkLeft(Origin), ChunkRight(Origin), ChunkFront(Origin), ChunkBack(Origin),
        ChunkUp(Origin), ChunkDown(Origin), Origin>> }

\* World::new, dispatch_threads(NumGenWorkers, NumMeshWorkers), then enqueue_chunk
\* for each coordinate of a stream order, their generation and one receive_chunk
InitMesh ==
    /\ cin = None
    /\ cout = None
    /\ \E order \in MeshStreamOrders :
         LET g == EnqueueAll([loaded |-> {}, genq |-> <<>>], order, 1)
             sent == Generated(g.genq)
             m == InsertAll(EmptyMap, sent, 1)
             r == MeshAll(m, [meshed |-> {}, meshq |-> <<>>], sent, 1)
         IN /\ chunks = m
            /\ loaded_chunks = g.loaded
            /\ meshed_chunks = r.meshed
            /\ meshgen_queue = r.meshq
    /\ models = EmptyMap
    /\ chunk_gen_queue = <<>>
    /\ chunk_channel = <<>>
    /\ gen_worker = [w \in GenWorkers |-> None]
    /\ mesh_worker = [w \in MeshWorkers |-> MeshIdle]
    /\ mesh_channel = <<>>
    /\ owner = OwnerIdle
    /\ held = NoneHeld
    /\ last = NoCall
    /\ resets = 0

\* meshing worker w: pop_front of the meshing queue
MeshPop(w) ==
    /\ mesh_worker[w].pc = "idle"
    /\ meshgen_queue # <<>>
    /\ mesh_worker' = [mesh_worker EXCEPT ![w] =
                          [pc |-> "popped", coord |-> Head(meshgen_queue)]]
    /\ meshgen_queue' = Tail(meshgen_queue)
    /\ last' = [op |-> "mesh_pop", w |-> w, coord |-> Head(meshgen_queue)]
    /\ UNCHANGED <<held, cin, cout, chunks, models, chunk_gen_queue, loaded_chunks,
                   meshed_chunks, chunk_channel, gen_worker, mesh_channel, owner, resets>>

\* a meshing worker that takes the chunk out of the map instead of cloning it
MeshSnapshotTaking(w) ==
    /\ mesh_worker[w].pc = "popped"
    /\ ~ChunksPoisoned
    /\ owner.pc = "idle"
    /\ mesh_worker[w].coord \in DOMAIN chunks
    /\ mesh_worker' = [mesh_worker EXCEPT ![w] =
                          [pc |-> "snapshot", coord |-> @.coord, chunk |-> chunks[@.coord]]]
    /\ chunks' = [c \in DOMAIN chunks \ {mesh_worker[w].coord} |-> chunks[c]]
    /\ last' = [op |-> "mesh_snapshot", w |-> w]
    /\ UNCHANGED <<held, cin, cout, models, chunk_gen_queue, meshgen_queue, loaded_chunks,
                   meshed_chunks, chunk_channel, gen_worker, mesh_channel, owner, resets>>

\* meshing worker w: chunks.lock().unwrap()[&mesh_to_gen].clone(); indexing a
\* key that is not in the map panics while the lock is held
MeshSnapshot(w) ==
    /\ mesh_worker[w].pc = "popped"
    /\ ~ChunksPoisoned
    /\ owner.pc = "idle"
    /\ mesh_worker' = [mesh_worker EXCEPT ![w] =
                          IF @.coord \in DOMAIN chunks
                          THEN [pc |-> "snapshot", coord |-> @.coord, chunk |-> chunks[@.coord]]
                          ELSE [pc |-> "panicked", coord |-> @.coord]]
    /\ last' = [op |-> "mesh_snapshot", w |-> w]
    /\ UNCHANGED <<held, cin, cout, chunks, models, chunk_gen_queue, meshgen_queue, loaded_chunks,
                   meshed_chunks, chunk_channel, gen_worker, mesh_channel, owner, resets>>

\* meshing worker w: generate_mesh_lod on the snapshot, send the mesh if any
MeshSend(w) ==
    /\ mesh_worker[w].pc = "snapshot"
    /\ ~ChunksPoisoned
    /\ owner.pc = "idle"
    /\ Len(mesh_channel) < MaxMeshChannel
    /\ LET mesh == GenerateMeshLod(mesh_worker[w].chunk, chunks)
       IN mesh_channel' = IF mesh.some
                          THEN Append(mesh_channel,
                                      [coord |-> mesh_worker[w].coord, mesh |-> mesh.val])
                          ELSE mesh_channel
    /\ mesh_worker' = [mesh_worker EXCEPT ![w] = MeshIdle]
    /\ last' = [op |-> "mesh_send", w |-> w]
    /\ UNCHANGED <<held, cin, cout, chunks, models, chunk_gen_queue, meshgen_queue, loaded_chunks,
                   meshed_chunks, chunk_channel, gen_worker, owner, resets>>

\* the number of results one dequeue_meshgen(limit) takes from n waiting ones:
\* the loop stores result i and only then leaves when i >= limit
DequeueCount(limit, n) == IF n > limit + 1 THEN limit + 1 ELSE n

\* the loop of dequeue_meshgen over the first n waiting results, from the t-th on
RECURSIVE StoreModels(_, _, _, _)
StoreModels(mm, received, n, t) ==
    IF t > n THEN mm
    ELSE StoreModels(MapInsert(mm, received[t].coord, received[t].mesh), received, n, t + 1)

\* a drain that has already received the next result when it tests the limit,
\* and drops it
DequeueMeshgenDropping(limit) ==
    LET n == DequeueCount(limit, Len(mesh_channel))
    IN /\ owner.pc = "idle"
       /\ models' = StoreModels(models, mesh_channel, n, 1)
       /\ mesh_channel' = SubSeq(mesh_channel, n + 2, Len(mesh_channel))
       /\ last' = [op |-> "dequeue_meshgen", limit |-> limit]
       /\ UNCHANGED <<held, cin, cout, chunks, chunk_gen_queue, meshgen_queue, loaded_chunks,
                      meshed_chunks, chunk_channel, gen_worker, mesh_worker, owner, resets>>

\* World::dequeue_meshgen(limit, device, queue, bg_layout)
DequeueMeshgen(limit) ==
    LET n == DequeueCount(limit, Len(mesh_channel))
    IN /\ owner.pc = "idle"
       /\ models' = StoreModels(models, mesh_channel, n, 1)
       /\ mesh_channel' = SubSeq(mesh_channel, n + 1, Len(mesh_channel))
       /\ last' = [op |-> "dequeue_meshgen", limit |-> limit]
       /\ UNCHANGED <<held, cin, cout, chunks, chunk_gen_queue, meshgen_queue, loaded_chunks,
                      meshed_chunks, chunk_channel, gen_worker, mesh_worker, owner, resets>>

\* the coordinates one set_voxel pushes, in the order of its push_front calls:
\* the neighbour across each face the local coordinate lies on, then the chunk
SetVoxelPushes(chunk_coord, local_coord) ==
    (IF ~LocalLeft(local_coord).some THEN <<ChunkLeft(chunk_coord)>> ELSE <<>>)
    \o (IF ~LocalRight(local_coord).some THEN <<ChunkRight(chunk_coord)>> ELSE <<>>)
    \o (IF ~LocalUp(local_coord).some THEN <<ChunkUp(chunk_coord)>> ELSE <<>>)
    \o (IF ~LocalDown(local_coord).some THEN <<ChunkDown(chunk_coord)>> ELSE <<>>)
    \o (IF ~LocalFront(local_coord).some THEN <<ChunkFront(chunk_coord)>> ELSE <<>>)
    \o (IF ~LocalBack(local_coord).some THEN <<ChunkBack(chunk_coord)>> ELSE <<>>)
    \o <<chunk_coord>>

\* World::set_voxel(position, block) up to its first lock of the meshing queue:
\* lock the chunk map, look the chunk up, write the voxel.  The chunk map stays
\* locked until the call returns; a call on a chunk that is not loaded returns here
SetVoxelBegin(position, block) ==
    LET chunk_coord == ChunkCoordFrom(position)
        local_coord == ChunkLocalCoordFrom(position)
    IN /\ owner.pc = "idle"
       /\ ~ChunksPoisoned
       /\ Len(meshgen_queue) < MaxMeshPending
       /\ IF chunk_coord \in DOMAIN chunks
          THEN /\ chunks' = MapInsert(chunks, chunk_coord,
                                      ChunkSetVoxel(chunks[chunk_coord], local_coord, block))
               /\ owner' = [pc |-> "set_voxel", position |-> position, block |-> block,
                            todo |-> SetVoxelPushes(chunk_coord, local_coord),
                            before |-> meshgen_queue]
               /\ last' = [op |-> "set_voxel_begin"]
          ELSE /\ UNCHANGED <<chunks, owner>>
               /\ last' = [op |-> "set_voxel", position |-> position, block |-> block,
                           before |-> meshgen_queue]
       /\ UNCHANGED <<held, cin, cout, models, chunk_gen_queue, meshgen_queue, loaded_chunks,
                      meshed_chunks, chunk_channel, gen_worker, mesh_worker, mesh_channel,
                      resets>>

\* one meshgen_queue.lock().unwrap().push_front(..) of set_voxel; the call
\* returns after the push of the chunk's own coordinate
SetVoxelPush ==
    /\ owner.pc = "set_voxel"
    /\ meshgen_queue' = PushFront(meshgen_queue, Head(owner.todo))
    /\ IF Len(owner.todo) = 1
       THEN /\ owner' = OwnerIdle
            /\ last' = [op |-> "set_voxel", position |-> owner.position,
                        block |-> owner.block, before |-> owner.before]
       ELSE /\ owner' = [owner EXCEPT !.todo = Tail(@)]
            /\ last' = [op |-> "set_voxel_push"]
    /\ UNCHANGED <<held, cin, cout, chunks, models, chunk_gen_queue, loaded_chunks,
                   meshed_chunks, chunk_channel, gen_worker, mesh_worker, mesh_channel,
                   resets>>

NextMesh ==
    \/ \E p \in MeshEditPositions : \E block \in {STONE, AIR} : SetVoxelBegin(p, block)
    \/ SetVoxelPush
    \/ owner.pc = "idle" /\ Reset
    \/ \E limit \in DequeueLimits : DequeueMeshgen(limit)
    \/ \E w \in MeshWorkers : MeshPop(w)
    \/ \E w \in MeshWorkers : MeshSnapshot(w)
    \/ \E w \in MeshWorkers : MeshSend(w)

SpecMesh == InitMesh /\ [][NextMesh]_vars

(***************************************************************************)
(* Claims about edits and the meshing workers                              *)
(***************************************************************************)
IsSuffix(q1, q2) == Len(q1) <= Len(q2) /\ q1 = SubSeq(q2, Len(q2) - Len(q1) + 1, Len(q2))

\* the returns of set_voxel(p, v) whose chunk is in the chunk map
EditReturned(l, m) ==
    /\ l.op = "set_voxel"
    /\ "before" \in DOMAIN l
    /\ ChunkOfPosition(l.position) \in DOMAIN m

\* C11: when set_voxel(p, v) on a loaded chunk C returns, the voxel at p is v,
\* C is at the front of the meshing queue, the queue is some entries this call
\* added (all of them C or a neighbour across a face p lies on) followed by what
\* is left of the entries pending when the call started, and a pop by a meshing
\* worker that comes next returns C.
C11_EditAtFront ==
    /\ [][ EditReturned(last', chunks') =>
           LET p == last'.position
               C == ChunkOfPosition(p)
               q == meshgen_queue'
           IN /\ DataAt(chunks'[C].chunk_data, IndexOfPosition(p)) = last'.block
              /\ q # <<>>
              /\ q[1] = C
              /\ \E k \in 1..Cardinality(Remeshed(p)) :
                    /\ k <= Len(q)
                    /\ \A i \in 1..k : q[i] \in Remeshed(p)
                    /\ IsSuffix(SubSeq(q, k + 1, Len(q)), last'.before) ]_vars
    /\ [][ (EditReturned(last, chunks) /\ last'.op = "mesh_pop") =>
              last'.coord = ChunkOfPosition(last.position) ]_vars

\* set_voxel returned on the loaded chunk (0,0,0) with a neighbour's entry
\* pending from before the call, still queued behind the entries the call added
C11_Witness ==
    /\ EditReturned(last, chunks)
    /\ last.block = STONE
    /\ last.before # <<>>
    /\ last.before[1] # ChunkOfPosition(last.position)
    /\ Len(meshgen_queue) >= 4
    /\ meshgen_queue[Len(meshgen_queue)] # ChunkOfPosition(last.position)
    /\ meshgen_queue[1] = ChunkOfPosition(last.position)

\* C19: one call dequeue_meshgen(limit) takes at most limit mesh results out of
\* the channel and into the model map, however many are waiting.
C19_DequeueBounded ==
    [][ last'.op = "dequeue_meshgen" =>
           Len(mesh_channel) - Len(mesh_channel') <= last'.limit ]_vars

\* C20: no meshing worker ever fails its lookup of the popped coordinate in the
\* chunk map: none panics, and the chunk map's lock is never poisoned.
C20_LookupNeverFails ==
    /\ \A w \in MeshWorkers : mesh_worker[w].pc # "panicked"
    /\ ~ChunksPoisoned

(***************************************************************************)
(* Edits of one chunk while several meshing workers run                    *)
(***************************************************************************)
\* dispatch_threads(_, NumRemeshWorkers): the meshing workers of the edited world
NumRemeshWorkers == 2

RemeshWorkers == 1..NumRemeshWorkers

\* the positions edited, both inside chunk (0,0,0) and off its faces, so that an
\* edit queues that chunk alone; every edit places stone, so the chunk has faces
\* after its first edit
RemeshEditPositions == { Coord(1, 1, 1), Coord(1, 1, 3) }

\* World::new, dispatch_threads(NumGenWorkers, NumRemeshWorkers), then
\* enqueue_chunk(Origin), its generation and one receive_chunk
InitRemesh ==
    /\ cin = None
    /\ cout = None
    /\ LET g == EnqueueAll([loaded |-> {}, genq |-> <<>>], <<Origin>>, 1)
           sent == Generated(g.genq)
           m == InsertAll(EmptyMap, sent, 1)
           r == MeshAll(m, [meshed |-> {}, meshq |-> <<>>], sent, 1)
       IN /\ chunks = m
          /\ loaded_chunks = g.loaded
          /\ meshed_chunks = r.meshed
          /\ meshgen_queue = r.meshq
    /\ models = EmptyMap
    /\ chunk_gen_queue = <<>>
    /\ chunk_channel = <<>>
    /\ gen_worker = [w \in GenWorkers |-> None]
    /\ mesh_worker = [w \in RemeshWorkers |-> MeshIdle]
    /\ mesh_channel = <<>>
    /\ owner = OwnerIdle
    /\ held = NoneHeld
    /\ last = NoCall
    /\ resets = 0

NextRemesh ==
    \/ \E p \in RemeshEditPositions : SetVoxelBegin(p, STONE)
    \/ SetVoxelPush
    \/ \E limit \in DequeueLimits : DequeueMeshgen(limit)
    \/ \E w \in RemeshWorkers : MeshPop(w)
    \/ \E w \in RemeshWorkers : MeshSnapshot(w)
    \/ \E w \in RemeshWorkers : MeshSend(w)

SpecRemesh == InitRemesh /\ [][NextRemesh]_vars

\* no call of the owner is running, the meshing queue and the mesh channel are
\* empty and every meshing worker is idle
Drained ==
    /\ owner.pc = "idle"
    /\ meshgen_queue = <<>>
    /\ mesh_channel = <<>>
    /\ \A w \in DOMAIN mesh_worker : mesh_worker[w].pc = "idle"

\* C33: after the last set_voxel on a loaded chunk C, once the meshing queue
\* and the mesh channel have drained, the model stored for C is the one
\* extracted from C's final voxel contents, never a mesh of an older snapshot.
C33_ModelFollowsContents ==
    Drained =>
        \A c \in DOMAIN models :
            Some(models[c]) = MeshResult(ModelLoop(chunks, c,
                                 {OffsetOfIndex(i) : i \in DOMAIN chunks[c].chunk_data}))

\* C34: when a chunk that has a stored model is remeshed after an edit and the
\* extractor emits no faces for it, then once the pipeline has drained the
\* model map holds no model for that chunk.
C34_EmptyChunkHasNoModel ==
    Drained =>
        \A c \in DOMAIN chunks :
            MeshResult(ModelLoop(chunks, c,
                          {OffsetOfIndex(i) : i \in DOMAIN chunks[c].chunk_data})) = None
                => c \notin DOMAIN models

\* the model map mm2 is mm after the first k results of channel ch were
\* inserted in channel order: a coordinate among them has the mesh of its last
\* result, every other coordinate is as it was
AppliedInOrder(mm, mm2, ch, k) ==
    /\ DOMAIN mm2 = DOMAIN mm \cup {ch[i].coord : i \in 1..k}
    /\ \A c \in DOMAIN mm2 :
          LET hits == {i \in 1..k : ch[i].coord = c}
          IN mm2[c] = IF hits = {} THEN mm[c]
                      ELSE ch[CHOOSE i \in hits : \A j \in hits : j <= i].mesh

\* C37: no finished mesh is lost by the bounded drain. The channel changes
\* only by a worker's send, which appends at its back, and by dequeue_meshgen,
\* which takes results from its front; a call applies exactly the results it
\* took, in the order they were sent, takes at least one when one is waiting,
\* and leaves the rest in the channel; nothing else changes the model map. So
\* every sent (coord, mesh) pair is applied exactly once, in send order.
C37_NoMeshLost ==
    [][ /\ last'.op = "dequeue_meshgen" =>
              \E k \in 0..Len(mesh_channel) :
                 /\ mesh_channel # <<>> => k >= 1
                 /\ mesh_channel' = SubSeq(mesh_channel, k + 1, Len(mesh_channel))
                 /\ AppliedInOrder(models, models', mesh_channel, k)
        /\ last'.op = "mesh_send" =>
              /\ models' = models
              /\ \/ mesh_channel' = mesh_channel
                 \/ /\ Len(mesh_channel') = Len(mesh_channel) + 1
                    /\ SubSeq(mesh_channel', 1, Len(mesh_channel)) = mesh_channel
        /\ last'.op \notin {"dequeue_meshgen", "mesh_send"} =>
              (mesh_channel' = mesh_channel /\ models' = models) ]_vars

\* dequeue_meshgen(0) has returned with a model stored for chunk (0,0,0) and a
\* different, later mesh of that chunk still waiting in the channel
C37_Witness ==
    /\ last.op = "dequeue_meshgen"
    /\ last.limit = 0
    /\ Origin \in DOMAIN models
    /\ mesh_channel # <<>>
    /\ mesh_channel[1].coord = Origin
    /\ mesh_channel[1].mesh # models[Origin]

(***************************************************************************)
(* Claims about the order of a coordinate's states                         *)
(***************************************************************************)
\* the coordinates a step put into the meshing queue or into the meshed set
NewlyQueuedForMeshing ==
    {c \in WorldCoords : Count(meshgen_queue', c) > Count(meshgen_queue, c)}
    \cup (meshed_chunks' \ meshed_chunks)

\* C21: enqueue_meshgen and enqueue_chunks_around put a coordinate into the
\* meshing queue or the meshed set only when that coordinate's own chunk is
\* already in the chunk map (generated comes before queued-for-meshing).
C21_GeneratedBeforeMeshing ==
    [][ last'.op \in {"enqueue_meshgen", "enqueue_chunks_around"} =>
           \A c \in NewlyQueuedForMeshing : c \in DOMAIN chunks ]_vars

(***************************************************************************)
(* Claims about workers and reset                                          *)
(***************************************************************************)
\* C22: a meshing job that a worker popped before reset() still runs without
\* the worker failing: when the worker's lookup is the step that follows the
\* reset, it yields the snapshot and the worker goes on to mesh it.
C22_InFlightJobSurvivesReset ==
    [][ (last.op = "reset" /\ last'.op = "mesh_snapshot") =>
           mesh_worker'[last'.w].pc = "snapshot" ]_vars

\* C36: once a chunk for coordinate c is in the chunk map, no later
\* receive_chunk replaces it with another generated chunk for c (no reset lies
\* between the two, as the chunk is in the map when the call starts), so a
\* voxel written by set_voxel is never reverted to generated content.
C36_ReceiveNeverReplaces ==
    [][ last'.op = "receive_chunk" =>
           \A c \in DOMAIN chunks : c \in DOMAIN chunks' /\ chunks'[c] = chunks[c] ]_vars

(***************************************************************************)
(* Claims about the hand-off of generation jobs                            *)
(***************************************************************************)
\* a worker's pop handed the oldest queued coordinate to one idle worker, left
\* the other workers as they were and removed the coordinate from the queue
PoppedOldest ==
    /\ chunk_gen_queue # <<>>
    /\ chunk_gen_queue' = SubSeq(chunk_gen_queue, 2, Len(chunk_gen_queue))
    /\ \E w \in DOMAIN gen_worker :
          /\ ~gen_worker[w].some
          /\ gen_worker'[w] = Some(chunk_gen_queue[1])
          /\ \A v \in DOMAIN gen_worker \ {w} : gen_worker'[v] = gen_worker[v]

StreamGenWorkers == 1..NumStreamGenWorkers

\* the arguments of the tick's enqueue_chunks_around: the smallest box that
\* holds a coordinate together with its six neighbours
StreamHeight == 2

StreamDistance == 1

StreamEye == Coord(5, 5, 5)

\* the limit the tick passes to dequeue_meshgen
StreamDequeueLimit == 1

\* the box of the tick's enqueue_chunks_around, in loop order
StreamBox == BoxSeq(ChunkCoordFrom(StreamEye), StreamHeight, StreamDistance)

\* the place in the box of the centre chunk, and of the neighbour of the
\* centre that the loop reaches last
CentreRank == CHOOSE t \in DOMAIN StreamBox : StreamBox[t] = ChunkCoordFrom(StreamEye)

LastNeighbourRank == CHOOSE t \in DOMAIN StreamBox : StreamBox[t] = ChunkUp(ChunkCoordFrom(StreamEye))

\* how far the streaming has got when the observed steps start: every job in
\* front of the centre's last neighbour is done, or all of them but the
\* centre's, which one worker still holds
StreamStarts == {"in order", "centre on a worker"}

\* World::new, dispatch_threads(NumStreamGenWorkers, NumMeshWorkers), the first
\* tick's enqueue_chunks_around, the generation of the jobs in front of the
\* centre's last neighbour and a receive_chunk
InitStream ==
    /\ cin = None
    /\ cout = None
    /\ \E start \in StreamStarts :
         LET st == EnqueueAroundLoop(EmptyMap, [loaded |-> {}, genq |-> <<>>,
                                                meshed |-> {}, meshq |-> <<>>], StreamBox, 1)
             taken == SubSeq(st.genq, 1, LastNeighbourRank - 1)
             done == IF start = "in order" THEN taken
                     ELSE SubSeq(taken, 1, CentreRank - 1)
                             \o SubSeq(taken, CentreRank + 1, Len(taken))
             sent == Generated(done)
             m == InsertAll(EmptyMap, sent, 1)
             r == MeshAll(m, [meshed |-> st.meshed, meshq |-> st.meshq], sent, 1)
         IN /\ chunks = m
            /\ loaded_chunks = st.loaded
            /\ chunk_gen_queue = SubSeq(st.genq, LastNeighbourRank, Len(st.genq))
            /\ meshed_chunks = r.meshed
            /\ meshgen_queue = r.meshq
            /\ gen_worker = [w \in StreamGenWorkers |->
                               IF start = "centre on a worker" /\ w = 1
                               THEN Some(st.genq[CentreRank]) ELSE None]
    /\ models = EmptyMap
    /\ chunk_channel = <<>>
    /\ mesh_worker = [w \in MeshWorkers |-> MeshIdle]
    /\ mesh_channel = <<>>
    /\ owner = OwnerIdle
    /\ held = NoneHeld
    /\ last = NoCall
    /\ resets = 0

NextStream ==
    \/ EnqueueChunksAround(StreamEye, StreamHeight, StreamDistance)
    \/ ReceiveChunk
    \/ DequeueMeshgen(StreamDequeueLimit)
    \/ \E w \in StreamGenWorkers : GenPop(w)
    \/ \E w \in StreamGenWorkers : GenSend(w)
    \/ \E w \in MeshWorkers : MeshPop(w)
    \/ \E w \in MeshWorkers : MeshSnapshot(w)
    \/ \E w \in MeshWorkers : MeshSend(w)

SpecStream == InitStream /\ [][NextStream]_vars

(***************************************************************************)
(* Claims about the streaming world                                        *)
(***************************************************************************)
\* the steps taken by generation workers and by meshing workers
WorkerSteps == {"gen_pop", "gen_send", "mesh_pop", "mesh_snapshot", "mesh_send"}

\* C25: no step of a generation worker or of a meshing worker inserts, removes
\* or changes an entry of the chunk map; a meshing worker's snapshot is a copy
\* of the chunk that stays in the map.
C25_SingleWriter ==
    [][ last'.op \in WorkerSteps =>
           /\ chunks' = chunks
           /\ \A w \in MeshWorkers :
                 (last'.op = "mesh_snapshot" /\ last'.w = w
                     /\ mesh_worker'[w].pc = "snapshot") =>
                    /\ mesh_worker[w].coord \in DOMAIN chunks'
                    /\ mesh_worker'[w].chunk = chunks'[mesh_worker[w].coord] ]_vars

\* a meshing worker took its snapshot of a chunk of a map that holds others too
C25_Witness ==
    /\ last.op = "mesh_snapshot"
    /\ mesh_worker[last.w].pc = "snapshot"
    /\ mesh_worker[last.w].coord \in DOMAIN chunks
    /\ Cardinality(DOMAIN chunks) > 1

\* C26: when receive_chunk inserts the last missing neighbour of a coordinate c
\* whose own chunk is already in the map and that is not in the meshed set, c
\* is in the meshing queue when the call returns.
C26_NeighbourRetry ==
    [][ last'.op = "receive_chunk" =>
           \A c \in DOMAIN chunks :
              (c \notin meshed_chunks /\ ~AllSixIn(chunks, c) /\ AllSixIn(chunks', c)) =>
                 Count(meshgen_queue', c) > 0 ]_vars

\* the coordinates the tick's enqueue_chunks_around requests
StreamRegion == {StreamBox[t] : t \in DOMAIN StreamBox}

\* C27: with no reset, a coordinate pushed to the generation queue whose chunk
\* is not yet in the chunk map can still get there: receive_chunk, the only
\* call that inserts it, is not shut off by a poisoned chunk-map lock.
C27_EnqueuedIsGenerated ==
    \A c \in StreamRegion :
       (c \in loaded_chunks /\ c \notin DOMAIN chunks) => ~ChunksPoisoned

\* the coordinates of the region whose six neighbours lie in the region too
StreamInterior ==
    {c \in StreamRegion :
        {ChunkLeft(c), ChunkRight(c), ChunkFront(c), ChunkBack(c), ChunkUp(c), ChunkDown(c)}
            \subseteq StreamRegion}

\* C28: with a stationary observer, no reset and no edit, a coordinate of the
\* region whose six neighbours lie in the region is never in the meshing queue
\* twice, and the meshing worker that pops it processes it: the worker finds
\* the chunk and does not panic.
C28_InteriorIsMeshed ==
    \A c \in StreamInterior :
       /\ Count(meshgen_queue, c) <= 1
       /\ ~\E w \in MeshWorkers :
             mesh_worker[w].pc = "panicked" /\ mesh_worker[w].coord = c

(***************************************************************************)
(* A world that is streamed in, reset and streamed in again                *)
(***************************************************************************)
\* World::new, dispatch_threads(NumGenWorkers, 0), then enqueue_chunks_around
\* for the box around the camera, the generation of its chunks and one
\* receive_chunk: the box is in the chunk map and its centre is queued for meshing
InitRestream ==
    /\ cin = None
    /\ cout = None
    /\ LET st == EnqueueAroundLoop(EmptyMap, [loaded |-> {}, genq |-> <<>>,
                                              meshed |-> {}, meshq |-> <<>>], StreamBox, 1)
           sent == Generated(st.genq)
           m == InsertAll(EmptyMap, sent, 1)
           r == MeshAll(m, [meshed |-> st.meshed, meshq |-> st.meshq], sent, 1)
       IN /\ chunks = m
          /\ loaded_chunks = st.loaded
          /\ meshed_chunks = r.meshed
          /\ meshgen_queue = r.meshq
    /\ models = EmptyMap
    /\ chunk_gen_queue = <<>>
    /\ chunk_channel = <<>>
    /\ gen_worker = [w \in GenWorkers |-> None]
    /\ mesh_worker = [w \in MeshWorkers |-> MeshIdle]
    /\ mesh_channel = <<>>
    /\ owner = OwnerIdle
    /\ held = NoneHeld
    /\ last = NoCall
    /\ resets = 0

NextRestream ==
    \/ EnqueueChunksAround(StreamEye, StreamHeight, StreamDistance)
    \/ EnqueueMeshgen(ChunkCoordFrom(StreamEye))
    \/ ReceiveChunk
    \/ Reset
    \/ \E w \in GenWorkers : GenPop(w)
    \/ \E w \in GenWorkers : GenSend(w)

SpecRestream == InitRestream /\ [][NextRestream]_vars

\* C35: after a reset, once c and its 6 neighbours have been generated and
\* inserted again, enqueue_meshgen(c) pushes c to the meshing queue again (no
\* worker pops the meshing queue here, so c is absent from the queue exactly
\* when it has not been pushed since the reset).
C35_MeshingResumesAfterReset ==
    [][ ( /\ last'.op = "enqueue_meshgen"
          /\ resets >= 1
          /\ last'.coord \in DOMAIN chunks
          /\ \A d \in Directions : ChunkAdd(last'.coord, d) \in DOMAIN chunks
          /\ Count(meshgen_queue, last'.coord) = 0 )
        => Count(meshgen_queue', last'.coord) = 1 ]_vars

(***************************************************************************)
(* mod.rs: the calls as sequences of lock, unlock and data steps           *)
(***************************************************************************)
\* mutex.lock().unwrap(): the guard is taken
Lock(l) == [i |-> "lock", l |-> l]

\* the guard goes out of scope: at the end of its statement for a temporary,
\* at the end of the function for a guard bound with let
Unlock(l) == [i |-> "unlock", l |-> l]

\* an operation on the data behind the guards held
Do(what, arg) == [i |-> what, arg |-> arg]

\* the end of a call made from inside another call
Ret == [i |-> "ret"]

\* World::enqueue_chunk(chunk_coord): both guards are temporaries
EnqueueChunkProgram(chunk_coord) ==
    << Lock("loaded_chunks"), Do("loaded_insert", chunk_coord), Unlock("loaded_chunks"),
       Lock("chunk_gen_queue"), Do("genq_push_back", chunk_coord), Unlock("chunk_gen_queue") >>

\* World::enqueue_meshgen(coord): `lock` on the chunk map lives to the end of
\* the function, the guards of the meshed set and of the queue are temporaries
EnqueueMeshgenProgram(coord) ==
    << Lock("chunks"), Do("test_neighbours", coord),
       Lock("meshed_chunks"), Do("meshed_insert", coord), Unlock("meshed_chunks"),
       Lock("meshgen_queue"), Do("meshq_push_back", coord), Unlock("meshgen_queue"),
       Unlock("chunks") >>

\* World::receive_chunk: the loop over try_iter comes first
ReceiveChunkProgram == << Do("recv", 0) >>

\* one pass of receive_chunk's first loop over a received chunk
ReceiveInsertProgram(chunk) ==
    << Lock("chunks"), Do("chunk_insert", chunk), Unlock("chunks"), Do("recv", 0) >>

\* receive_chunk's second loop: enqueue_meshgen for coords_to_mesh from the t-th on
RECURSIVE ReceiveMeshProgram(_, _)
ReceiveMeshProgram(coords_to_mesh, t) ==
    IF t > Len(coords_to_mesh) THEN <<>>
    ELSE EnqueueMeshgenProgram(coords_to_mesh[t]) \o <<Ret>>
            \o ReceiveMeshProgram(coords_to_mesh, t + 1)

\* the meshgen_queue.lock().unwrap().push_front(..) statements of set_voxel
RECURSIVE PushFrontProgram(_, _)
PushFrontProgram(coords, t) ==
    IF t > Len(coords) THEN <<>>
    ELSE << Lock("meshgen_queue"), Do("meshq_push_front", coords[t]), Unlock("meshgen_queue") >>
            \o PushFrontProgram(coords, t + 1)

\* World::set_voxel(position, block): `lock` on the chunk map lives to the end
\* of the function
SetVoxelProgram(position, block) ==
    << Lock("chunks"), Do("voxel_write", [position |-> position, block |-> block]) >>
    \o PushFrontProgram(SetVoxelPushes(ChunkCoordFrom(position), ChunkLocalCoordFrom(position)), 1)
    \o << Unlock("chunks") >>

\* World::set_voxels_radius(center, radius, block): the second `let mut lock`
\* shadows the first, whose guard on the chunk map lives on to the end
SetVoxelsRadiusProgram(center, radius, block) ==
    << Lock("chunks"),
       Do("radius_write", [center |-> center, radius |-> radius, block |-> block]),
       Lock("meshgen_queue"), Do("radius_push", 0),
       Unlock("meshgen_queue"), Unlock("chunks") >>

\* World::reset: sent, genqueue and meshqueue live to the end of the function
\* and are dropped in the reverse order of their declaration
ResetProgram ==
    << Lock("loaded_chunks"), Lock("chunk_gen_queue"), Lock("meshgen_queue"),
       Do("clear_queues", 0),
       Lock("chunks"), Do("chunks_clear", 0), Unlock("chunks"),
       Do("models_clear", 0),
       Unlock("meshgen_queue"), Unlock("chunk_gen_queue"), Unlock("loaded_chunks") >>

\* World::get_voxel(position)
GetVoxelProgram(position) ==
    << Lock("chunks"), Do("voxel_read", position), Unlock("chunks") >>

\* the offsets the loops of set_voxels_radius write at
RadiusOffsets(radius) ==
    { o \in [x : (-radius)..(radius - 1), y : (-radius)..(radius - 1),
             z : (-radius)..(radius - 1)] :
         o.x * o.x + o.y * o.y + o.z * o.z <= radius * radius }

\* the neighbours across the faces local_coord lies on, loaded or not, as
\* set_voxel takes them
RadiusNeighboursUnchecked(m, chunk_coord, local_coord) ==
    (IF ~LocalLeft(local_coord).some THEN {ChunkLeft(chunk_coord)} ELSE {})
    \cup (IF ~LocalRight(local_coord).some THEN {ChunkRight(chunk_coord)} ELSE {})
    \cup (IF ~LocalUp(local_coord).some THEN {ChunkUp(chunk_coord)} ELSE {})
    \cup (IF ~LocalDown(local_coord).some THEN {ChunkDown(chunk_coord)} ELSE {})
    \cup (IF ~LocalFront(local_coord).some THEN {ChunkFront(chunk_coord)} ELSE {})
    \cup (IF ~LocalBack(local_coord).some THEN {ChunkBack(chunk_coord)} ELSE {})

\* the neighbours set_voxels_radius adds for a write at local_coord of chunk_coord
RadiusNeighbours(m, chunk_coord, local_coord) ==
    (IF ~LocalLeft(local_coord).some /\ ChunkLeft(chunk_coord) \in DOMAIN m
        THEN {ChunkLeft(chunk_coord)} ELSE {})
    \cup (IF ~LocalRight(local_coord).some /\ ChunkRight(chunk_coord) \in DOMAIN m
        THEN {ChunkRight(chunk_coord)} ELSE {})
    \cup (IF ~LocalUp(local_coord).some /\ ChunkUp(chunk_coord) \in DOMAIN m
        THEN {ChunkUp(chunk_coord)} ELSE {})
    \cup (IF ~LocalDown(local_coord).some /\ ChunkDown(chunk_coord) \in DOMAIN m
        THEN {ChunkDown(chunk_coord)} ELSE {})
    \cup (IF ~LocalFront(local_coord).some /\ ChunkFront(chunk_coord) \in DOMAIN m
        THEN {ChunkFront(chunk_coord)} ELSE {})
    \cup (IF ~LocalBack(local_coord).some /\ ChunkBack(chunk_coord) \in DOMAIN m
        THEN {ChunkBack(chunk_coord)} ELSE {})

\* the loops of set_voxels_radius over the offsets todo, on st = [chunks,
\* affected].  The writes store one block at distinct positions and the map's
\* keys do not change, so the order of the offsets does not show in the result
RECURSIVE RadiusLoop(_, _, _, _)
RadiusLoop(st, center, block, todo) ==
    IF todo = {} THEN st
    ELSE LET offset == CHOOSE o \in todo : TRUE
             world_coord == WorldAdd(center, offset)
             chunk_coord == ChunkCoordFrom(world_coord)
             local_coord == ChunkLocalCoordFrom(world_coord)
             after == IF chunk_coord \in DOMAIN st.chunks
                      THEN [chunks |-> MapInsert(st.chunks, chunk_coord,
                                          ChunkSetVoxel(st.chunks[chunk_coord], local_coord, block)),
                            affected |-> st.affected
                                           \cup RadiusNeighbours(st.chunks, chunk_coord, local_coord)
                                           \cup {chunk_coord}]
                      ELSE st
         IN RadiusLoop(after, center, block, todo \ {offset})

\* the orders in which a HashSet may hand out its elements
Orders(S) ==
    { q \in [1..Cardinality(S) -> S] : \A a, b \in DOMAIN q : a # b => q[a] # q[b] }

\* push_front of every element of order, from the t-th on
RECURSIVE PushFrontAll(_, _, _)
PushFrontAll(q, order, t) ==
    IF t > Len(order) THEN q ELSE PushFrontAll(PushFront(q, order[t]), order, t + 1)

(***************************************************************************)
(* mod.rs: the owner and the workers, one step per lock, unlock or data    *)
(* operation                                                               *)
(***************************************************************************)
\* the coordinate enqueue_chunk and enqueue_meshgen are called with
LockCallCoords == {Origin}

\* the position of get_voxel, set_voxel and set_voxels_radius: in chunk
\* (-1,0,0), on the face it shares with chunk (0,0,0)
LockEditPositions == { Coord(-1, 1, 1) }

\* the radius of set_voxels_radius
LockRadius == 1

\* the chunks streamed in before the observed steps start: the six neighbours
\* of Origin, without Origin
LockStreamOrders ==
    { <<ChunkLeft(Origin), ChunkRight(Origin), ChunkFront(Origin), ChunkBack(Origin),
        ChunkUp(Origin), ChunkDown(Origin)>> }

\* the main thread has not panicked; its panic ends the process
ProcessAlive == owner.pc # "panicked"

\* the instructions left once the calls that have returned are dropped
RECURSIVE Norm(_)
Norm(todo) ==
    IF todo # <<>> /\ Head(todo).i = "ret" THEN Norm(Tail(todo)) ELSE todo

\* the owner after a step that leaves the instructions rest
After(rest) ==
    IF Norm(rest) = <<>> THEN OwnerIdle ELSE [owner EXCEPT !.todo = Norm(rest)]

\* `return` inside a call: of the call's instructions only the drops of the
\* guards it holds are left
EarlyReturn(rest) ==
    LET rets == {t \in DOMAIN rest : rest[t].i = "ret"}
        k == IF rets = {} THEN Len(rest) + 1
             ELSE CHOOSE t \in rets : \A u \in rets : t <= u
        Drops(ins) == ins.i = "unlock" /\ held[ins.l] = OwnerThread
    IN SelectSeq(SubSeq(rest, 1, k - 1), Drops) \o SubSeq(rest, k, Len(rest))

\* the owner is inside a call and its next instruction is i
OwnerAt(i) == owner.pc = "call" /\ Head(owner.todo).i = i

\* the owner enters a call
OwnerCall(op, todo) ==
    /\ owner.pc = "idle"
    /\ owner' = [pc |-> "call", op |-> op, todo |-> todo, coords |-> <<>>, affected |-> {},
                 ret |-> None]
    /\ UNCHANGED <<last, cin, cout, chunks, models, chunk_gen_queue, meshgen_queue, loaded_chunks,
                   meshed_chunks, chunk_channel, gen_worker, mesh_worker, mesh_channel,
                   held, resets>>

\* mutex.lock().unwrap() by the owner: it waits while the guard is held; on the
\* poisoned chunk map lock() returns Err and unwrap panics, which drops every
\* guard the owner holds
OwnerLock ==
    /\ OwnerAt("lock")
    /\ LET l == Head(owner.todo).l
       IN /\ held[l] = Free
          /\ IF l = "chunks" /\ ChunksPoisoned
             THEN /\ owner' = [pc |-> "panicked", op |-> owner.op, l |-> l]
                  /\ held' = [k \in Locks |-> IF held[k] = OwnerThread THEN Free ELSE held[k]]
             ELSE /\ owner' = After(Tail(owner.todo))
                  /\ held' = [held EXCEPT ![l] = OwnerThread]
    /\ UNCHANGED <<last, cin, cout, chunks, models, chunk_gen_queue, meshgen_queue, loaded_chunks,
                   meshed_chunks, chunk_channel, gen_worker, mesh_worker, mesh_channel,
                   resets>>

\* a guard of the owner is dropped
OwnerUnlock ==
    /\ OwnerAt("unlock")
    /\ held[Head(owner.todo).l] = OwnerThread
    /\ held' = [held EXCEPT ![Head(owner.todo).l] = Free]
    /\ owner' = After(Tail(owner.todo))
    /\ UNCHANGED <<last, cin, cout, chunks, models, chunk_gen_queue, meshgen_queue, loaded_chunks,
                   meshed_chunks, chunk_channel, gen_worker, mesh_worker, mesh_channel,
                   resets>>

\* the data operation ins of the owner on w, the fields of the world and of the
\* call; order is the order in which chunks_affected hands out its elements
OwnerEffect(ins, order, w) ==
    CASE ins.i = "loaded_insert" ->
            \* enqueue_chunk: if !loaded_chunks.insert(chunk_coord) { return; }
            IF ins.arg \in w.loaded_chunks THEN [w EXCEPT !.returns = TRUE]
            ELSE [w EXCEPT !.loaded_chunks = @ \cup {ins.arg}]
      [] ins.i = "genq_push_back" ->
            \* enqueue_chunk: chunk_gen_queue.push_back(chunk_coord)
            [w EXCEPT !.chunk_gen_queue = Append(@, ins.arg)]
      [] ins.i = "test_neighbours" ->
            \* enqueue_meshgen: the contains_key test of the six neighbours
            IF NeighboursPresent(w.chunks, ins.arg) THEN w ELSE [w EXCEPT !.returns = TRUE]
      [] ins.i = "meshed_insert" ->
            \* enqueue_meshgen: if !meshed_chunks.insert(coord) { return; }
            IF MeshedInsert(w.meshed_chunks, ins.arg)
            THEN [w EXCEPT !.meshed_chunks = @ \cup {ins.arg}]
            ELSE [w EXCEPT !.returns = TRUE]
      [] ins.i = "meshq_push_back" ->
            \* enqueue_meshgen: meshgen_queue.push_back(coord)
            [w EXCEPT !.meshgen_queue = Append(@, ins.arg)]
      [] ins.i = "meshq_push_front" ->
            \* set_voxel: meshgen_queue.push_front(..)
            [w EXCEPT !.meshgen_queue = PushFront(@, ins.arg)]
      [] ins.i = "recv" ->
            \* receive_chunk: the next chunk of try_iter, or the end of the first loop
            IF w.chunk_channel # <<>>
            THEN [w EXCEPT !.chunk_channel = Tail(@),
                           !.todo = ReceiveInsertProgram(Head(w.chunk_channel)),
                           !.coords = Append(@, Head(w.chunk_channel).coord)]
            ELSE [w EXCEPT !.todo = ReceiveMeshProgram(w.coords, 1)]
      [] ins.i = "chunk_insert" ->
            \* receive_chunk: chunks.insert(coord, chunk)
            [w EXCEPT !.chunks = MapInsert(@, ins.arg.coord, ins.arg)]
      [] ins.i = "voxel_write" ->
            \* set_voxel: if let Some(chunk) = lock.get_mut(&chunk_coord) { chunk.set_voxel(..)
            LET chunk_coord == ChunkCoordFrom(ins.arg.position)
                local_coord == ChunkLocalCoordFrom(ins.arg.position)
            IN IF chunk_coord \in DOMAIN w.chunks
               THEN [w EXCEPT !.chunks = MapInsert(@, chunk_coord,
                                  ChunkSetVoxel(w.chunks[chunk_coord], local_coord, ins.arg.block))]
               ELSE [w EXCEPT !.returns = TRUE]
      [] ins.i = "radius_write" ->
            \* set_voxels_radius: the three loops that write and collect chunks_affected
            LET r == RadiusLoop([chunks |-> w.chunks, affected |-> {}], ins.arg.center,
                                ins.arg.block, RadiusOffsets(ins.arg.radius))
            IN [w EXCEPT !.chunks = r.chunks, !.affected = r.affected]
      [] ins.i = "radius_push" ->
            \* set_voxels_radius: for coord in chunks_affected { lock.push_front(coord); }
            [w EXCEPT !.meshgen_queue = PushFrontAll(@, order, 1)]
      [] ins.i = "clear_queues" ->
            \* reset: sent.clear(); genqueue.clear(); meshqueue.clear();
            [w EXCEPT !.loaded_chunks = {}, !.chunk_gen_queue = <<>>, !.meshgen_queue = <<>>,
                      !.resets = @ + 1]
      [] ins.i = "chunks_clear" ->
            \* reset: self.chunks.lock().unwrap().clear()
            [w EXCEPT !.chunks = EmptyMap]
      [] ins.i = "models_clear" ->
            \* reset: self.models.clear()
            [w EXCEPT !.models = EmptyMap]
      [] ins.i = "voxel_read" ->
            \* get_voxel: lock.get(&chunk_coord)?.get_voxel(local_coord)
            [w EXCEPT !.ret = WorldGetVoxel(w.chunks, ins.arg)]

\* the owner's next statement, an operation on the data behind the guards it holds
OwnerDo ==
    /\ owner.pc = "call"
    /\ Head(owner.todo).i \notin {"lock", "unlock"}
    /\ \E order \in (IF Head(owner.todo).i = "radius_push"
                     THEN Orders(owner.affected) ELSE {<<>>}) :
         LET e == OwnerEffect(Head(owner.todo), order,
                     [chunks |-> chunks, models |-> models,
                      chunk_gen_queue |-> chunk_gen_queue, meshgen_queue |-> meshgen_queue,
                      loaded_chunks |-> loaded_chunks, meshed_chunks |-> meshed_chunks,
                      chunk_channel |-> chunk_channel, resets |-> resets,
                      todo |-> Tail(owner.todo), coords |-> owner.coords,
                      affected |-> owner.affected, ret |-> owner.ret, returns |-> FALSE])
             rest == Norm(IF e.returns THEN EarlyReturn(e.todo) ELSE e.todo)
         IN /\ chunks' = e.chunks
            /\ models' = e.models
            /\ chunk_gen_queue' = e.chunk_gen_queue
            /\ meshgen_queue' = e.meshgen_queue
            /\ loaded_chunks' = e.loaded_chunks
            /\ meshed_chunks' = e.meshed_chunks
            /\ chunk_channel' = e.chunk_channel
            /\ resets' = e.resets
            /\ owner' = IF rest = <<>> THEN OwnerIdle
                        ELSE [owner EXCEPT !.todo = rest, !.coords = e.coords,
                                           !.affected = e.affected, !.ret = e.ret]
    /\ UNCHANGED <<last, cin, cout, gen_worker, mesh_worker, mesh_channel, held>>

\* generation worker w: chunk_gen_queue.lock().unwrap()
GenLockQueue(w) ==
    /\ ProcessAlive
    /\ ~gen_worker[w].some
    /\ held["chunk_gen_queue"] = Free
    /\ held' = [held EXCEPT !["chunk_gen_queue"] = GenThread(w)]
    /\ UNCHANGED <<last, cin, cout, chunks, models, chunk_gen_queue, meshgen_queue, loaded_chunks,
                   meshed_chunks, chunk_channel, gen_worker, mesh_worker, mesh_channel,
                   owner, resets>>

\* generation worker w: .pop_front(), and the temporary guard is dropped; with
\* nothing popped the worker sleeps and starts over
GenPopFront(w) ==
    /\ ProcessAlive
    /\ held["chunk_gen_queue"] = GenThread(w)
    /\ held' = [held EXCEPT !["chunk_gen_queue"] = Free]
    /\ IF chunk_gen_queue # <<>>
       THEN /\ gen_worker' = [gen_worker EXCEPT ![w] = Some(Head(chunk_gen_queue))]
            /\ chunk_gen_queue' = Tail(chunk_gen_queue)
       ELSE UNCHANGED <<gen_worker, chunk_gen_queue>>
    /\ UNCHANGED <<last, cin, cout, chunks, models, meshgen_queue, loaded_chunks,
                   meshed_chunks, chunk_channel, mesh_worker, mesh_channel, owner, resets>>

\* meshing worker w: mesh_gen_queue.lock().unwrap()
MeshLockQueue(w) ==
    /\ ProcessAlive
    /\ mesh_worker[w].pc = "idle"
    /\ held["meshgen_queue"] = Free
    /\ held' = [held EXCEPT !["meshgen_queue"] = MeshThread(w)]
    /\ UNCHANGED <<last, cin, cout, chunks, models, chunk_gen_queue, meshgen_queue, loaded_chunks,
                   meshed_chunks, chunk_channel, gen_worker, mesh_worker, mesh_channel,
                   owner, resets>>

\* meshing worker w: .pop_front(), and the temporary guard is dropped
MeshPopFront(w) ==
    /\ ProcessAlive
    /\ held["meshgen_queue"] = MeshThread(w)
    /\ held' = [held EXCEPT !["meshgen_queue"] = Free]
    /\ IF meshgen_queue # <<>>
       THEN /\ mesh_worker' = [mesh_worker EXCEPT ![w] =
                                  [pc |-> "popped", coord |-> Head(meshgen_queue)]]
            /\ meshgen_queue' = Tail(meshgen_queue)
       ELSE UNCHANGED <<mesh_worker, meshgen_queue>>
    /\ UNCHANGED <<last, cin, cout, chunks, models, chunk_gen_queue, loaded_chunks,
                   meshed_chunks, chunk_channel, gen_worker, mesh_channel, owner, resets>>

\* meshing worker w: world_accessor.chunks.lock().unwrap(), for the clone of
\* the popped chunk and again for the reads of generate_mesh_lod; on the
\* poisoned lock unwrap panics
MeshLockChunks(w) ==
    /\ ProcessAlive
    /\ mesh_worker[w].pc \in {"popped", "snapshot"}
    /\ mesh_worker[w].pc = "snapshot" => Len(mesh_channel) < MaxMeshChannel
    /\ held["chunks"] = Free
    /\ IF ChunksPoisoned
       THEN /\ mesh_worker' = [mesh_worker EXCEPT ![w] =
                                  [pc |-> "panicked", coord |-> @.coord, l |-> "chunks"]]
            /\ UNCHANGED held
       ELSE /\ held' = [held EXCEPT !["chunks"] = MeshThread(w)]
            /\ UNCHANGED mesh_worker
    /\ UNCHANGED <<last, cin, cout, chunks, models, chunk_gen_queue, meshgen_queue, loaded_chunks,
                   meshed_chunks, chunk_channel, gen_worker, mesh_channel, owner, resets>>

\* meshing worker w: [&mesh_to_gen].clone(), and the temporary guard is
\* dropped; indexing a key that is not in the map panics with the guard held
MeshClone(w) ==
    /\ ProcessAlive
    /\ mesh_worker[w].pc = "popped"
    /\ held["chunks"] = MeshThread(w)
    /\ held' = [held EXCEPT !["chunks"] = Free]
    /\ mesh_worker' = [mesh_worker EXCEPT ![w] =
                          IF @.coord \in DOMAIN chunks
                          THEN [pc |-> "snapshot", coord |-> @.coord, chunk |-> chunks[@.coord]]
                          ELSE [pc |-> "panicked", coord |-> @.coord]]
    /\ UNCHANGED <<last, cin, cout, chunks, models, chunk_gen_queue, meshgen_queue, loaded_chunks,
                   meshed_chunks, chunk_channel, gen_worker, mesh_channel, owner, resets>>

\* meshing worker w: the reads of generate_mesh_lod through the accessor, the
\* guard dropped, and the mesh sent if there is one
MeshGenerate(w) ==
    /\ ProcessAlive
    /\ mesh_worker[w].pc = "snapshot"
    /\ held["chunks"] = MeshThread(w)
    /\ held' = [held EXCEPT !["chunks"] = Free]
    /\ LET mesh == GenerateMeshLod(mesh_worker[w].chunk, chunks)
       IN mesh_channel' = IF mesh.some
                          THEN Append(mesh_channel,
                                      [coord |-> mesh_worker[w].coord, mesh |-> mesh.val])
                          ELSE mesh_channel
    /\ mesh_worker' = [mesh_worker EXCEPT ![w] = MeshIdle]
    /\ UNCHANGED <<last, cin, cout, chunks, models, chunk_gen_queue, meshgen_queue, loaded_chunks,
                   meshed_chunks, chunk_channel, gen_worker, owner, resets>>

\* World::new, dispatch_threads(NumGenWorkers, NumMeshWorkers), then enqueue_chunk
\* for each coordinate of a stream order, their generation and one receive_chunk
InitLock ==
    /\ cin = None
    /\ cout = None
    /\ \E order \in LockStreamOrders :
         LET g == EnqueueAll([loaded |-> {}, genq |-> <<>>], order, 1)
             sent == Generated(g.genq)
             m == InsertAll(EmptyMap, sent, 1)
             r == MeshAll(m, [meshed |-> {}, meshq |-> <<>>], sent, 1)
         IN /\ chunks = m
            /\ loaded_chunks = g.loaded
            /\ meshed_chunks = r.meshed
            /\ meshgen_queue = r.meshq
    /\ models = EmptyMap
    /\ chunk_gen_queue = <<>>
    /\ chunk_channel = <<>>
    /\ gen_worker = [w \in GenWorkers |-> None]
    /\ mesh_worker = [w \in MeshWorkers |-> MeshIdle]
    /\ mesh_channel = <<>>
    /\ owner = OwnerIdle
    /\ held = NoneHeld
    /\ last = NoCall
    /\ resets = 0

NextLock ==
    \/ \E c \in LockCallCoords : OwnerCall("enqueue_chunk", EnqueueChunkProgram(c))
    \/ \E c \in LockCallCoords : OwnerCall("enqueue_meshgen", EnqueueMeshgenProgram(c))
    \/ OwnerCall("receive_chunk", ReceiveChunkProgram)
    \/ \E p \in LockEditPositions :
          Len(meshgen_queue) < MaxLockPending /\ OwnerCall("set_voxel", SetVoxelProgram(p, STONE))
    \/ \E p \in LockEditPositions :
          /\ Len(meshgen_queue) < MaxLockPending
          /\ OwnerCall("set_voxels_radius", SetVoxelsRadiusProgram(p, LockRadius, STONE))
    \/ resets < MaxResets /\ OwnerCall("reset", ResetProgram)
    \/ \E p \in LockEditPositions : OwnerCall("get_voxel", GetVoxelProgram(p))
    \/ DequeueMeshgen(StreamDequeueLimit)
    \/ OwnerLock
    \/ OwnerUnlock
    \/ OwnerDo
    \/ \E w \in GenWorkers : GenLockQueue(w)
    \/ \E w \in GenWorkers : GenPopFront(w)
    \/ \E w \in GenWorkers : ProcessAlive /\ GenSend(w)
    \/ \E w \in MeshWorkers : MeshLockQueue(w)
    \/ \E w \in MeshWorkers : MeshPopFront(w)
    \/ \E w \in MeshWorkers : MeshLockChunks(w)
    \/ \E w \in MeshWorkers : MeshClone(w)
    \/ \E w \in MeshWorkers : MeshGenerate(w)

SpecLock == InitLock /\ [][NextLock]_vars

(***************************************************************************)
(* Claims about the locks                                                  *)
(***************************************************************************)
\* every thread of the process
Threads ==
    {OwnerThread} \cup {GenThread(w) : w \in GenWorkers} \cup {MeshThread(w) : w \in MeshWorkers}

\* the guards thread t holds
HeldBy(t) == {l \in Locks : held[l] = t}

\* C24: every thread, the owner or a worker, holds at most one of the five locks.
C24_OneLockAtATime ==
    \A t \in Threads : Cardinality(HeldBy(t)) <= 1

\* the lock thread t asks for next, if its next step is a lock()
Wants(t) ==
    IF t = OwnerThread
    THEN (IF OwnerAt("lock") THEN {Head(owner.todo).l} ELSE {})
    ELSE IF t[1] = "gen"
    THEN (IF ~gen_worker[t[2]].some /\ held["chunk_gen_queue"] # t
          THEN {"chunk_gen_queue"} ELSE {})
    ELSE (IF mesh_worker[t[2]].pc = "idle" /\ held["meshgen_queue"] # t
          THEN {"meshgen_queue"}
          ELSE IF mesh_worker[t[2]].pc \in {"popped", "snapshot"} /\ held["chunks"] # t
          THEN {"chunks"} ELSE {})

\* a set of threads each of which holds a lock and waits for a lock that a
\* thread of the set holds
CircularWait ==
    \E S \in SUBSET Threads :
       /\ S # {}
       /\ \A t \in S : HeldBy(t) # {} /\ \E l \in Wants(t) : held[l] \in S

NoCircularWait == ~CircularWait

\* a lock().unwrap() that did not succeed: lock() returned Err on a poisoned
\* mutex and the thread panicked
AcquisitionFailed ==
    \/ owner.pc = "panicked"
    \/ \E w \in MeshWorkers : mesh_worker[w].pc = "panicked" /\ "l" \in DOMAIN mesh_worker[w]

\* C23: no set of threads is ever in a circular wait on the five locks, and no
\* lock acquisition fails.
C23_DeadlockFree ==
    NoCircularWait /\ ~AcquisitionFailed

(***************************************************************************)
(* mod.rs: set_voxels_radius on a partly loaded world                      *)
(***************************************************************************)
\* the chunks that may be loaded when the sphere is written: chunk (0,0,0) and
\* its neighbours towards negative x and y
RadiusChunks == {Origin, ChunkLeft(Origin), ChunkDown(Origin)}

\* the centres of the spheres: the corner of chunk (0,0,0), where a sphere
\* reaches into the three neighbours; one voxel in from it, where it touches
\* their faces from inside; and a voxel away from every face
RadiusCenters == {Coord(0, 0, 0), Coord(1, 1, 1), Coord(5, 5, 5)}

\* the radius arguments
RadiusArgs == {0, 1, 2}

\* World::new, dispatch_threads, then enqueue_chunk for some of the chunks,
\* their generation and one receive_chunk
InitRadius ==
    /\ cin = None
    /\ cout = None
    /\ \E loaded \in SUBSET RadiusChunks :
         LET order == CHOOSE q \in Orders(loaded) : TRUE
             g == EnqueueAll([loaded |-> {}, genq |-> <<>>], order, 1)
             sent == Generated(g.genq)
             m == InsertAll(EmptyMap, sent, 1)
             r == MeshAll(m, [meshed |-> {}, meshq |-> <<>>], sent, 1)
         IN /\ chunks = m
            /\ loaded_chunks = g.loaded
            /\ meshed_chunks = r.meshed
            /\ meshgen_queue = r.meshq
    /\ models = EmptyMap
    /\ chunk_gen_queue = <<>>
    /\ chunk_channel = <<>>
    /\ gen_worker = [w \in GenWorkers |-> None]
    /\ mesh_worker = [w \in MeshWorkers |-> MeshIdle]
    /\ mesh_channel = <<>>
    /\ owner = OwnerIdle
    /\ held = NoneHeld
    /\ last = NoCall
    /\ resets = 0

\* World::set_voxels_radius(center, radius, block): the loops under the chunk
\* map's lock, then the pushes of the affected set under the queue's lock
SetVoxelsRadius(center, radius, block) ==
    LET r == RadiusLoop([chunks |-> chunks, affected |-> {}], center, block,
                        RadiusOffsets(radius))
    IN /\ ~ChunksPoisoned
       /\ Len(meshgen_queue) < MaxMeshQueue
       /\ chunks' = r.chunks
       /\ \E order \in Orders(r.affected) :
             meshgen_queue' = PushFrontAll(meshgen_queue, order, 1)
       /\ last' = [op |-> "set_voxels_radius", center |-> center, radius |-> radius,
                   block |-> block]
       /\ UNCHANGED <<meshVars, cin, cout, models, chunk_gen_queue, loaded_chunks,
                      meshed_chunks, chunk_channel, gen_worker, resets>>

NextRadius ==
    \E center \in RadiusCenters, radius \in RadiusArgs, block \in {STONE, AIR} :
       SetVoxelsRadius(center, radius, block)

SpecRadius == InitRadius /\ [][NextRadius]_vars

(***************************************************************************)
(* Claims about set_voxels_radius                                          *)
(***************************************************************************)
\* the positions of the sphere of call l that lie in a chunk of the map m
RadiusWritten(l, m) ==
    {w \in {WorldAdd(l.center, o) : o \in RadiusOffsets(l.radius)} :
        ChunkOfPosition(w) \in DOMAIN m}

\* the chunks call l wrote a voxel in, and the loaded chunks across a chunk
\* face from a written voxel
RadiusExpected(l, m) ==
    LET written == RadiusWritten(l, m)
        across == {ChunkOfPosition(Coord(w[1].x + w[2].x, w[1].y + w[2].y, w[1].z + w[2].z)) :
                      w \in written \X Directions}
    IN {ChunkOfPosition(w) : w \in written} \cup (across \cap DOMAIN m)

\* C38: set_voxels_radius pushes to the front of the meshing queue exactly one
\* entry for each chunk in which it wrote a voxel and for each loaded
\* neighbour across a chunk face touched by a written voxel, never a
\* coordinate that is absent from the chunk map; the voxels of the sphere in
\* loaded chunks hold the block afterwards, and positions in unloaded chunks
\* change nothing.
C38_RadiusPushes ==
    [][ last'.op = "set_voxels_radius" =>
           LET written == RadiusWritten(last', chunks)
               expected == RadiusExpected(last', chunks)
               k == Cardinality(expected)
               written_at == {<<ChunkOfPosition(w), IndexOfPosition(w)>> : w \in written}
           IN /\ Len(meshgen_queue') = Len(meshgen_queue) + k
              /\ SubSeq(meshgen_queue', k + 1, Len(meshgen_queue')) = meshgen_queue
              /\ {meshgen_queue'[i] : i \in 1..k} = expected
              /\ \A i \in 1..k : meshgen_queue'[i] \in DOMAIN chunks
              /\ DOMAIN chunks' = DOMAIN chunks
              /\ \A w \in written :
                    DataAt(chunks'[ChunkOfPosition(w)].chunk_data, IndexOfPosition(w))
                       = last'.block
              /\ \A c \in DOMAIN chunks :
                    \A i \in DOMAIN chunks[c].chunk_data \cup DOMAIN chunks'[c].chunk_data :
                       <<c, i>> \notin written_at
                          => DataAt(chunks'[c].chunk_data, i) = DataAt(chunks[c].chunk_data, i)
              /\ written = {} => (chunks' = chunks /\ meshgen_queue' = meshgen_queue)
              /\ UNCHANGED <<models, chunk_gen_queue, loaded_chunks, meshed_chunks,
                             chunk_channel>> ]_vars

\* a sphere of radius 1 at the corner of chunk (0,0,0) was written with stone
\* while the left neighbour was loaded and the lower one was not: both loaded
\* chunks are queued once, the lower one is not, and the voxel of the sphere in
\* the left neighbour is stone
C38_Witness ==
    /\ last.op = "set_voxels_radius"
    /\ last.center = Coord(0, 0, 0)
    /\ last.radius = 1
    /\ last.block = STONE
    /\ Origin \in DOMAIN chunks
    /\ ChunkLeft(Origin) \in DOMAIN chunks
    /\ ChunkDown(Origin) \notin DOMAIN chunks
    /\ Count(meshgen_queue, Origin) = 1
    /\ Count(meshgen_queue, ChunkLeft(Origin)) = 1
    /\ Count(meshgen_queue, ChunkDown(Origin)) = 0
    /\ DataAt(chunks[ChunkLeft(Origin)].chunk_data, IndexOfPosition(Coord(-1, 0, 0))) = STONE

====
